---- MODULE Spec2Model ----
(***************************************************************************)
(* Model of the MLS synchronisation pipeline of sales/tasks.py:            *)
(* sync_members, sync_properties, process_single_property, and the         *)
(* SyncLog watermark store of sales/models.py.                             *)
(*                                                                         *)
(* The upstream WFRMLS API is external: every page fetch draws its outcome *)
(* (page, rate limit, other error) and every iteration of a page loop      *)
(* draws the record it reads from a bounded record set.                    *)
(***************************************************************************)
EXTENDS Integers, Sequences, FiniteSets, TLC

(* ------------------------------ bounds -------------------------------- *)
\* invocations of sync_members / sync_properties in one behaviour
MaxRuns == 3
\* pages the upstream serves to one run before it signals the end
MaxPages == 2
\* records the upstream serves in one behaviour
MaxRecords == 2
\* the same three limits for behaviours of a single long invocation
LongRuns == 1
LongPages == 3
LongRecords == 5
\* records per full page (the code asks for top=200; scaled down)
PageSize == 2
\* modification timestamps are 1..MaxTs
MaxTs == 2
\* member keys are 1..MaxKey
MaxKey == 1
\* the limits for behaviours of run_full_sync
FullRuns == 2
FullPages == 2
FullRecords == 2
\* behaviours of the aggregation: listings reconciled, recomputes called,
\* agent keys 1..MaxAgent, listing keys 1..MaxListing
AggRecords == 2
AggRecomputes == 2
MaxAgent == 2
MaxListing == 2
CmdRuns == 2
CmdPages == 2
CmdRecords == 2
CmdRecomputes == 1
RaceRuns == 3

(* --------------------------- value encoding --------------------------- *)
\* Python None / SQL NULL for numeric and timestamp fields
None == 0
\* a ModificationTimestamp string that datetime.fromisoformat rejects
Malformed == 0 - 1

STARTED == "started"
COMPLETED == "completed"
FAILED == "failed"

MEMBERS == "members"
PROPERTIES == "properties"

Timestamps == 1..MaxTs

\* member records the upstream can serve (MemberKeyNumeric may be absent)
MemberRecords ==
    [MemberKeyNumeric : 0..MaxKey,
     ModificationTimestamp : {Malformed, None} \cup Timestamps]

\* listing records the upstream can serve; the filter of sync_properties
\* asks for StandardStatus eq 'Closed'
\* the year timezone.now().year gives, and the years a caller may name
CurrentYear == 2024
Years == {2024, 2025}

\* the property records the upstream can serve to a sync; the listing
\* filter of line 603-606 makes them closed listings
PropertyRecords ==
    [ListingKeyNumeric : {1},
     BuyerAgentKeyNumeric : {None, 1},
     ListAgentKeyNumeric : {1},
     StandardStatus : {"Closed"},
     ModificationTimestamp : {Malformed, None} \cup Timestamps,
     ClosePrice : {100000},
     CloseDate : Years,
     PropertyType : {"Residential"},
     ListAgentAOR : {"A"},
     BuyerAgentAOR : {"A"}]

\* lines 603-606: the records the upstream serves under the filter
\* "CloseDate ge {year}-01-01 and CloseDate le {year}-12-31"
ListingsOfYear(y) == {d \in PropertyRecords : d.CloseDate = y}

\* continuation links of a member response: absent, a link with a query
\* part, a link without one
NextLinks == {"none", "query", "plain"}

\* an association code that is absent or empty (both are false at lines
\* 730 and 744)
NoAor == ""

AgentKeys == 1..MaxAgent

\* the listing records process_single_property can be given once the
\* upstream data changes between syncs. Listing 1 has list agent 1 and the
\* lower price, and varies in buyer and in the two associations, and in at
\* most one of status, type and year; the other listings are closed
\* residential sales of the current year without buyer agent. A record
\* without buyer agent has no buyer association
ListingRecords ==
    {d \in [ListingKeyNumeric : 1..MaxListing,
            BuyerAgentKeyNumeric : {None} \cup AgentKeys,
            ListAgentKeyNumeric : AgentKeys,
            StandardStatus : {"Closed", "Active"},
            ModificationTimestamp : {1},
            ClosePrice : {100000, 200000},
            CloseDate : Years,
            PropertyType : {"Residential", "Land"},
            ListAgentAOR : {NoAor, "A"},
            BuyerAgentAOR : {NoAor, "A"}] :
        LET changed == {x \in {"status", "type", "year"} :
                           \/ x = "status" /\ d.StandardStatus # "Closed"
                           \/ x = "type" /\ d.PropertyType # "Residential"
                           \/ x = "year" /\ d.CloseDate # CurrentYear}
        IN  /\ d.BuyerAgentKeyNumeric = None => d.BuyerAgentAOR = NoAor
            /\ IF d.ListingKeyNumeric = 1
               THEN /\ d.ListAgentKeyNumeric = 1
                    /\ d.ClosePrice = 100000
                    /\ Cardinality(changed) <= 1
               ELSE /\ changed = {}
                    /\ d.BuyerAgentKeyNumeric = None
                    /\ d.ListAgentAOR = "A"}

(* ------------------------------- state -------------------------------- *)
VARIABLES
    members,            \* Member table: sequence of rows in id order
    properties,         \* Property table: sequence of rows in id order
    logs,               \* SyncLog table: sequence of rows, pk = index
    clock,              \* timezone.now()
    pc,                 \* position of the running invocation
    sync_type,          \* the task of the current or last invocation
    full_sync,          \* its full_sync argument
    sync_log,           \* the in-memory SyncLog object of the invocation
    records_processed,
    records_created,
    records_updated,
    last_timestamp,     \* incremental floor of sync_members
    page_num,           \* pages requested so far
    page_len,           \* len(response["value"]) of the current page
    page_left,          \* records of the current page not yet iterated
    next_link,          \* response["@odata.nextLink"] of the current page
    result,             \* how the last invocation ended
    last_op,            \* observer: what the last loop iteration did
    last_cmp,           \* observer: its record's timestamp against the
                        \*   last completed watermark of the type
    max_fetched,        \* observer: max parseable timestamp drawn in the run
    fetched_n,          \* observer: records delivered by the run's pages
    first_error_at,     \* observer: index of the first record that raised
    diverged,           \* observer: a step differed from the full_sync step
    served,             \* environment: records the upstream has delivered
    limits,             \* environment: what it does in this behaviour
    last_fetch,         \* observer: outcome of the request made in this step
    requests,           \* observer: requests made so far for that page
    recovered,          \* observer: a retry succeeded earlier in the run
    year,               \* the year argument of the current or last call
    orch,               \* position of run_full_sync and its year argument
    agent_stats,        \* AgentStats table: sequence of rows in id order
    last_stats,         \* observer: the recompute that returned in this step
    errors,             \* observer: the member records whose iteration
                        \*   raised, in this member run and in the one
                        \*   before it if it completed, and those this
                        \*   run skipped
    command,            \* the sync_mls_data command: options, position, end
    workers             \* two sync processes started side by side: the
                        \*   position and the locals of each

dbvars == <<members, properties, logs, clock>>
runvars == <<pc, sync_type, full_sync, sync_log, records_processed,
             records_created, records_updated, last_timestamp, page_num,
             page_len, page_left, next_link, result>>
obsvars == <<last_op, last_cmp, max_fetched, fetched_n, first_error_at,
             diverged>>
envvars == <<served, limits>>
fetchobs == <<last_fetch, requests, recovered>>
aggvars == <<agent_stats, last_stats>>
vars == <<dbvars, runvars, obsvars, envvars, fetchobs, year, orch, aggvars,
          command, errors, workers>>

(* ------------------------------ SyncLog ------------------------------- *)
\* SyncLog.objects.create(sync_type=..., status=STARTED): field defaults
NewSyncLog(type, now) ==
    [sync_type |-> type,
     started_at |-> now,
     completed_at |-> None,
     records_processed |-> 0,
     records_created |-> 0,
     records_updated |-> 0,
     status |-> STARTED,
     error_message |-> "",
     last_modification_timestamp |-> None]

\* the in-memory object: the row plus its primary key
NoSyncLog == [pk |-> 0, row |-> NewSyncLog("", 0)]

\* sync_log.save(): writes every field of the object to its row
Save(table, obj) == [table EXCEPT ![obj.pk] = obj.row]

\* the completed rows of a type, as primary keys
CompletedOfType(table, type) ==
    {i \in 1..Len(table) :
        table[i].sync_type = type /\ table[i].status = COMPLETED}

\* a mutant: the status filter is missing
get_last_successful_sync_anystatus(table, type) ==
    LET c == {i \in 1..Len(table) :
                 table[i].sync_type = type /\ table[i].completed_at # None}
    IN  IF c = {} THEN 0
        ELSE CHOOSE i \in c :
                 \A j \in c : table[j].completed_at <= table[i].completed_at

\* a mutant: the order is ascending, the oldest completed row comes first
get_last_successful_sync_oldest(table, type) ==
    LET c == CompletedOfType(table, type)
    IN  IF c = {} THEN 0
        ELSE CHOOSE i \in c :
                 \A j \in c : table[j].completed_at >= table[i].completed_at

\* SyncLog.get_last_successful_sync: filter(sync_type, status=COMPLETED)
\* .order_by("-completed_at").first(); 0 stands for no row
get_last_successful_sync(table, type) ==
    LET c == CompletedOfType(table, type)
    IN  IF c = {} THEN 0
        ELSE CHOOSE i \in c :
                 \A j \in c : table[j].completed_at <= table[i].completed_at

\* a mutant: the floor is the watermark of the newest completed run that
\* stored one
IncrementalFloor_lastwatermark(table, full) ==
    IF full THEN None
    ELSE LET c == {i \in CompletedOfType(table, MEMBERS) :
                      table[i].last_modification_timestamp # None}
         IN  IF c = {} THEN None
             ELSE table[CHOOSE i \in c :
                            \A j \in c : table[j].completed_at
                                             <= table[i].completed_at]
                      .last_modification_timestamp

\* sync_members lines 61-68: the floor of an invocation
IncrementalFloor(table, full) ==
    IF full THEN None
    ELSE LET last_sync == get_last_successful_sync(table, MEMBERS)
         IN  IF last_sync # 0
                /\ table[last_sync].last_modification_timestamp # None
             THEN table[last_sync].last_modification_timestamp
             ELSE None

(* -------------------------- reconciliation ---------------------------- *)
\* a mutant: SQL "= NULL" semantics, a NULL component never matches
LookupEq_sqlnull(stored, wanted) == stored # None /\ stored = wanted

\* a Django exact lookup: field=None is translated to IS NULL
LookupEq(stored, wanted) == stored = wanted

\* lines 91-94 / 654-657: keep the larger of the stored and the new one
TrackTimestamp(current, mod_ts) ==
    IF current = None THEN mod_ts
    ELSE IF mod_ts > current THEN mod_ts
    ELSE current

\* ids of the Member rows the lookup member_key_numeric=key matches
MemberMatches(table, key) ==
    {i \in 1..Len(table) : LookupEq(table[i].member_key_numeric, key)}

\* ids of the Property rows the 4-field lookup matches
PropertyMatches(table, d) ==
    {i \in 1..Len(table) :
        /\ LookupEq(table[i].listing_key_numeric, d.ListingKeyNumeric)
        /\ LookupEq(table[i].buyer_agent_key_numeric, d.BuyerAgentKeyNumeric)
        /\ LookupEq(table[i].list_agent_key_numeric, d.ListAgentKeyNumeric)
        /\ LookupEq(table[i].standard_status, d.StandardStatus)}

MemberRow(d) ==
    [member_key_numeric |-> d.MemberKeyNumeric,
     modification_timestamp |-> d.ModificationTimestamp]

PropertyRow(d) ==
    [listing_key_numeric |-> d.ListingKeyNumeric,
     buyer_agent_key_numeric |-> d.BuyerAgentKeyNumeric,
     list_agent_key_numeric |-> d.ListAgentKeyNumeric,
     standard_status |-> d.StandardStatus,
     modification_timestamp |-> d.ModificationTimestamp,
     close_price |-> d.ClosePrice,
     close_date |-> d.CloseDate,
     property_type |-> d.PropertyType,
     list_agent_aor |-> d.ListAgentAOR,
     buyer_agent_aor |-> d.BuyerAgentAOR]

\* a mutant: a row is created whether or not the lookup matches
update_or_create_insert(table, matches, row) ==
    [table |-> Append(table, row), outcome |-> "created"]

\* QuerySet.update_or_create: get by the lookup; no row -> create, one row
\* -> set the defaults and save, several rows -> MultipleObjectsReturned
update_or_create(table, matches, row) ==
    IF matches = {} THEN [table |-> Append(table, row), outcome |-> "created"]
    ELSE IF Cardinality(matches) = 1
         THEN [table |-> [table EXCEPT ![CHOOSE i \in matches : TRUE] = row],
               outcome |-> "updated"]
         ELSE [table |-> table, outcome |-> "error"]

\* a mutant: the except handler does not stamp completed_at
RecordFailure_nostamp(obj, message, now) ==
    [obj EXCEPT !.row.status = FAILED,
                !.row.error_message = message]

\* lines 210-215 / 690-695: the except handler's assignments; the counters
\* live in local variables and are not copied to the object here
RecordFailure(obj, message, now) ==
    [obj EXCEPT !.row.status = FAILED,
                !.row.error_message = message,
                !.row.completed_at = now]

\* lines 198-202 / 678-682: the assignments before the final save
RecordSuccess(obj, processed, created, updated, now) ==
    [obj EXCEPT !.row.records_processed = processed,
                !.row.records_created = created,
                !.row.records_updated = updated,
                !.row.status = COMPLETED,
                !.row.completed_at = now]

\* a mutant: an invocation resumes the failed log of its type, if any
CreateSyncLog_resume(table, type, now) ==
    LET failed == {i \in 1..Len(table) :
                      table[i].sync_type = type /\ table[i].status = FAILED}
    IN  IF failed = {}
        THEN [table |-> Append(table, NewSyncLog(type, now)),
              obj |-> [pk |-> Len(table) + 1, row |-> NewSyncLog(type, now)]]
        ELSE LET i == CHOOSE k \in failed : TRUE
             IN  [table |-> [table EXCEPT ![i].status = STARTED],
                  obj |-> [pk |-> i,
                           row |-> [table[i] EXCEPT !.status = STARTED]]]

\* a mutant: the object is built in memory and its row is not inserted
CreateSyncLog_unsaved(table, type, now) ==
    [table |-> table,
     obj |-> [pk |-> Len(table) + 1, row |-> NewSyncLog(type, now)]]

\* lines 51-54 / 591-594: SyncLog.objects.create inserts a new row and
\* returns the object bound to it
CreateSyncLog(table, type, now) ==
    [table |-> Append(table, NewSyncLog(type, now)),
     obj |-> [pk |-> Len(table) + 1, row |-> NewSyncLog(type, now)]]

(* ------------------------ one loop iteration -------------------------- *)
\* what an iteration reads and writes
IterState(table) ==
    [table |-> table,
     records_processed |-> records_processed,
     records_created |-> records_created,
     records_updated |-> records_updated,
     last_modification_timestamp |-> sync_log.row.last_modification_timestamp,
     op |-> "none"]

\* the tail of both loop bodies: count the outcome of update_or_create
CountOutcome(st, uoc, db_error) ==
    IF db_error \/ uoc.outcome = "error" THEN [st EXCEPT !.op = "error"]
    ELSE IF uoc.outcome = "created"
         THEN [st EXCEPT !.table = uoc.table, !.op = "created",
                         !.records_created = @ + 1]
         ELSE [st EXCEPT !.table = uoc.table, !.op = "updated",
                         !.records_updated = @ + 1]

\* a mutant: the floor test comes before the timestamp is tracked
MemberStep_skipfirst(member_data, floor, db_error, st) ==
    LET mod_timestamp == member_data.ModificationTimestamp
        counted == [st EXCEPT !.records_processed = @ + 1]
        tracked ==
            IF mod_timestamp # None
            THEN [counted EXCEPT !.last_modification_timestamp =
                                     TrackTimestamp(@, mod_timestamp)]
            ELSE counted
        key == member_data.MemberKeyNumeric
    IN  IF mod_timestamp = Malformed THEN [counted EXCEPT !.op = "error"]
        ELSE IF mod_timestamp # None /\ floor # None /\ mod_timestamp <= floor
        THEN [counted EXCEPT !.op = "skip"]
        ELSE IF key = None THEN [tracked EXCEPT !.op = "nokey"]
        ELSE CountOutcome(tracked,
                 update_or_create(st.table, MemberMatches(st.table, key),
                                  MemberRow(member_data)),
                 db_error)

\* sync_members lines 78-171: the body of the for loop for one record
MemberStep(member_data, floor, db_error, st) ==
    LET mod_timestamp == member_data.ModificationTimestamp
        counted == [st EXCEPT !.records_processed = @ + 1]
        tracked ==
            IF mod_timestamp # None
            THEN [counted EXCEPT !.last_modification_timestamp =
                                     TrackTimestamp(@, mod_timestamp)]
            ELSE counted
        key == member_data.MemberKeyNumeric
    IN  IF mod_timestamp = Malformed THEN [counted EXCEPT !.op = "error"]
        ELSE IF mod_timestamp # None /\ floor # None /\ mod_timestamp <= floor
        THEN [tracked EXCEPT !.op = "skip"]
        ELSE IF key = None THEN [tracked EXCEPT !.op = "nokey"]
        ELSE CountOutcome(tracked,
                 update_or_create(st.table, MemberMatches(st.table, key),
                                  MemberRow(member_data)),
                 db_error)

\* process_single_property lines 230-571
process_single_property(table, property_data) ==
    update_or_create(table, PropertyMatches(table, property_data),
                     PropertyRow(property_data))

\* a mutant: the outcome is counted as created before the write can raise
PropertyStep_countfirst(property_data, db_error, st) ==
    LET mod_timestamp == property_data.ModificationTimestamp
        counted == [st EXCEPT !.records_processed = @ + 1]
        tracked ==
            IF mod_timestamp # None
            THEN [counted EXCEPT !.last_modification_timestamp =
                                     TrackTimestamp(@, mod_timestamp)]
            ELSE counted
    IN  IF mod_timestamp = Malformed THEN [counted EXCEPT !.op = "error"]
        ELSE IF db_error
        THEN [tracked EXCEPT !.op = "error", !.records_created = @ + 1]
        ELSE CountOutcome(tracked,
                 process_single_property(st.table, property_data), db_error)

\* a mutant: a failing record also undoes the row written before it
PropertyStep_rollback(property_data, db_error, st) ==
    LET mod_timestamp == property_data.ModificationTimestamp
        counted == [st EXCEPT !.records_processed = @ + 1]
        tracked ==
            IF mod_timestamp # None
            THEN [counted EXCEPT !.last_modification_timestamp =
                                     TrackTimestamp(@, mod_timestamp)]
            ELSE counted
    IN  IF mod_timestamp = Malformed THEN [counted EXCEPT !.op = "error"]
        ELSE IF db_error /\ Len(st.table) > 0
        THEN [tracked EXCEPT !.op = "error",
                             !.table = SubSeq(@, 1, Len(@) - 1)]
        ELSE CountOutcome(tracked,
                 process_single_property(st.table, property_data), db_error)

\* sync_properties lines 641-672: the body of the for loop for one record;
\* full_sync and the stored watermark are not read anywhere in this loop
PropertyStep(property_data, db_error, st) ==
    LET mod_timestamp == property_data.ModificationTimestamp
        counted == [st EXCEPT !.records_processed = @ + 1]
        tracked ==
            IF mod_timestamp # None
            THEN [counted EXCEPT !.last_modification_timestamp =
                                     TrackTimestamp(@, mod_timestamp)]
            ELSE counted
    IN  IF mod_timestamp = Malformed THEN [counted EXCEPT !.op = "error"]
        ELSE CountOutcome(tracked,
                 process_single_property(st.table, property_data), db_error)

(* ----------------------------- observers ------------------------------ *)
\* the watermark of the completed log of a type that completed last
LastCompletedWatermark(type) ==
    LET c == CompletedOfType(logs, type)
    IN  IF c = {} THEN None
        ELSE LET i == CHOOSE k \in c :
                          \A j \in c : logs[j].completed_at <= logs[k].completed_at
             IN  logs[i].last_modification_timestamp

\* a record's timestamp against the last completed watermark T of its type
CompareToWatermark(mod_timestamp, type) ==
    LET T == LastCompletedWatermark(type)
    IN  IF T = None \/ mod_timestamp \notin Timestamps THEN "none"
        ELSE IF mod_timestamp <= T THEN "le" ELSE "gt"

MaxOf(a, b) == IF a >= b THEN a ELSE b

(* ---------------------- calculate_agent_stats ------------------------- *)
\* a mutant: the filter does not look at the property type
Qualifies_anytype(prop, y) ==
    /\ prop.standard_status = "Closed"
    /\ prop.close_date = y

\* lines 716-720: the filter of closed_properties (close_date is kept as
\* its year)
Qualifies(prop, y) ==
    /\ prop.standard_status = "Closed"
    /\ prop.close_date = y
    /\ prop.property_type = "Residential"

\* line 726: Decimal(str(close_price)) if close_price else Decimal("0")
PriceOf(prop) == IF prop.close_price = None THEN 0 ELSE prop.close_price

\* a mutant: a missing association is kept as it is
AorOrUnknown_blank(aor) == aor

\* lines 730, 744: aor or "Unknown"
AorOrUnknown(aor) == IF aor = NoAor THEN "Unknown" ELSE aor

\* lines 732-738: the entry a key gets when it is first seen
EmptyVolumes(key) ==
    [key |-> key, listing_volume |-> 0, buyer_volume |-> 0,
     listing_count |-> 0, buyer_count |-> 0]

\* agent_volumes is a dict: entries in insertion order, one per key
WithKey(vols, key) ==
    IF \E j \in 1..Len(vols) : vols[j].key = key
    THEN vols
    ELSE Append(vols, EmptyVolumes(key))

EntryOf(vols, key) == CHOOSE j \in 1..Len(vols) : vols[j].key = key

\* a mutant: the listing side keeps the last price instead of the sum
AddListingSide_overwrite(vols, prop) ==
    IF prop.list_agent_key_numeric = None THEN vols
    ELSE LET key == <<prop.list_agent_key_numeric,
                      AorOrUnknown(prop.list_agent_aor)>>
             v == WithKey(vols, key)
         IN  [v EXCEPT ![EntryOf(v, key)].listing_volume = PriceOf(prop),
                       ![EntryOf(v, key)].listing_count = @ + 1]

\* lines 729-740: the listing side of one property
AddListingSide(vols, prop) ==
    IF prop.list_agent_key_numeric = None THEN vols
    ELSE LET key == <<prop.list_agent_key_numeric,
                      AorOrUnknown(prop.list_agent_aor)>>
             v == WithKey(vols, key)
         IN  [v EXCEPT ![EntryOf(v, key)].listing_volume = @ + PriceOf(prop),
                       ![EntryOf(v, key)].listing_count = @ + 1]

\* a mutant: the buyer side adds the price and not the count
AddBuyerSide_nocount(vols, prop) ==
    IF prop.buyer_agent_key_numeric = None THEN vols
    ELSE LET key == <<prop.buyer_agent_key_numeric,
                      AorOrUnknown(prop.buyer_agent_aor)>>
             v == WithKey(vols, key)
         IN  [v EXCEPT ![EntryOf(v, key)].buyer_volume = @ + PriceOf(prop)]

\* a mutant: the buyer side is skipped when the agent also listed the
\* property
AddBuyerSide_skipsame(vols, prop) ==
    IF prop.buyer_agent_key_numeric = None
       \/ prop.buyer_agent_key_numeric = prop.list_agent_key_numeric
    THEN vols
    ELSE LET key == <<prop.buyer_agent_key_numeric,
                      AorOrUnknown(prop.buyer_agent_aor)>>
             v == WithKey(vols, key)
         IN  [v EXCEPT ![EntryOf(v, key)].buyer_volume = @ + PriceOf(prop),
                       ![EntryOf(v, key)].buyer_count = @ + 1]

\* lines 743-754: the buyer side of one property
AddBuyerSide(vols, prop) ==
    IF prop.buyer_agent_key_numeric = None THEN vols
    ELSE LET key == <<prop.buyer_agent_key_numeric,
                      AorOrUnknown(prop.buyer_agent_aor)>>
             v == WithKey(vols, key)
         IN  [v EXCEPT ![EntryOf(v, key)].buyer_volume = @ + PriceOf(prop),
                       ![EntryOf(v, key)].buyer_count = @ + 1]

\* lines 723-754: agent_volumes after the first n rows of the table, the
\* rows being read in id order
RECURSIVE AgentVolumes(_, _, _)
AgentVolumes(table, y, n) ==
    IF n = 0 THEN << >>
    ELSE LET vols == AgentVolumes(table, y, n - 1)
         IN  IF Qualifies(table[n], y)
             THEN AddBuyerSide(AddListingSide(vols, table[n]), table[n])
             ELSE vols

\* line 763 stored in DecimalField(decimal_places=2): the quotient in
\* hundredths, rounded half to even; None when there is no transaction
AveragePrice(total_volume, total_count) ==
    IF total_count > 0
    THEN LET n == total_volume * 100
             q == n \div total_count
             r == n % total_count
         IN  IF 2 * r > total_count \/ (2 * r = total_count /\ q % 2 = 1)
             THEN q + 1 ELSE q
    ELSE None

\* a mutant: the total is the listing side alone
StatsRow_listingonly(member, y, v, rank_overall, rank_in_aor) ==
    [member |-> member,
     year |-> y,
     aor |-> v.key[2],
     total_volume |-> v.listing_volume,
     listing_volume |-> v.listing_volume,
     buyer_volume |-> v.buyer_volume,
     transaction_count |-> v.listing_count + v.buyer_count,
     listing_count |-> v.listing_count,
     buyer_count |-> v.buyer_count,
     average_price |-> AveragePrice(v.listing_volume + v.buyer_volume,
                                    v.listing_count + v.buyer_count),
     rank_overall |-> rank_overall,
     rank_in_aor |-> rank_in_aor]

\* lines 765-778: the row update_or_create leaves for a bucket; the ranks
\* are not among the defaults, so an existing row keeps them
StatsRow(member, y, v, rank_overall, rank_in_aor) ==
    [member |-> member,
     year |-> y,
     aor |-> v.key[2],
     total_volume |-> v.listing_volume + v.buyer_volume,
     listing_volume |-> v.listing_volume,
     buyer_volume |-> v.buyer_volume,
     transaction_count |-> v.listing_count + v.buyer_count,
     listing_count |-> v.listing_count,
     buyer_count |-> v.buyer_count,
     average_price |-> AveragePrice(v.listing_volume + v.buyer_volume,
                                    v.listing_count + v.buyer_count),
     rank_overall |-> rank_overall,
     rank_in_aor |-> rank_in_aor]

\* ids of the AgentStats rows the lookup member, year, aor matches
StatsMatches(stats, member, y, aor) ==
    {i \in 1..Len(stats) :
        /\ stats[i].member = member
        /\ stats[i].year = y
        /\ stats[i].aor = aor}

\* a mutant: a bucket whose agent is unknown is skipped but counted
PersistBucket_countmissing(st, mem, y, v) ==
    LET found == MemberMatches(mem, v.key[1])
    IN  IF found = {}
        THEN [table |-> st.table, stats_updated |-> st.stats_updated + 1]
        ELSE LET member == CHOOSE m \in found : TRUE
                 matches == StatsMatches(st.table, member, y, v.key[2])
                 row == IF matches = {}
                        THEN StatsRow(member, y, v, None, None)
                        ELSE LET old == st.table[CHOOSE i \in matches : TRUE]
                             IN  StatsRow(member, y, v, old.rank_overall,
                                          old.rank_in_aor)
             IN  [table |-> update_or_create(st.table, matches, row).table,
                  stats_updated |-> st.stats_updated + 1]

\* lines 759-781: one bucket; Member.DoesNotExist skips it uncounted
PersistBucket(st, mem, y, v) ==
    LET found == MemberMatches(mem, v.key[1])
    IN  IF found = {} THEN st
        ELSE LET member == CHOOSE m \in found : TRUE
                 matches == StatsMatches(st.table, member, y, v.key[2])
                 row == IF matches = {}
                        THEN StatsRow(member, y, v, None, None)
                        ELSE LET old == st.table[CHOOSE i \in matches : TRUE]
                             IN  StatsRow(member, y, v, old.rank_overall,
                                          old.rank_in_aor)
             IN  [table |-> update_or_create(st.table, matches, row).table,
                  stats_updated |-> st.stats_updated + 1]

\* lines 757-781: the loop over the first n buckets of agent_volumes
RECURSIVE PersistBuckets(_, _, _, _, _)
PersistBuckets(stats, mem, y, vols, n) ==
    IF n = 0 THEN [table |-> stats, stats_updated |-> 0]
    ELSE PersistBucket(PersistBuckets(stats, mem, y, vols, n - 1), mem, y,
                       vols[n])

\* a mutant: the ranking pass reads the rows of all years
RowsOfYear_all(stats, y) == 1..Len(stats)

\* ids of the AgentStats rows of a year
RowsOfYear(stats, y) == {i \in 1..Len(stats) : stats[i].year = y}

\* a mutant: rows with equal volume share a rank
Orders_dense(stats, S) ==
    {[i \in S |->
         1 + Cardinality({j \in S :
                             stats[j].total_volume > stats[i].total_volume})]}

\* lines 785, 793-795: the positions order_by("-total_volume") can give
\* the rows S; rows with equal volume come in an order the database picks
Orders(stats, S) ==
    {f \in [S -> 1..Cardinality(S)] :
        /\ \A i, j \in S : i # j => f[i] # f[j]
        /\ \A i, j \in S :
               stats[i].total_volume > stats[j].total_volume => f[i] < f[j]}

\* lines 791-798: one such order for the rows of every association
AorOrders(stats, S) ==
    {g \in [S -> 1..Cardinality(S)] :
        \A i \in S :
            LET same == {j \in S : stats[j].aor = stats[i].aor}
            IN  /\ g[i] <= Cardinality(same)
                /\ \A j \in same : i # j => g[i] # g[j]
                /\ \A j \in same :
                       stats[i].total_volume > stats[j].total_volume
                           => g[i] < g[j]}

\* lines 786-788, 796-798: the two ranks are saved
Ranked(stats, S, f, g) ==
    [i \in 1..Len(stats) |->
        IF i \in S
        THEN [stats[i] EXCEPT !.rank_overall = f[i], !.rank_in_aor = g[i]]
        ELSE stats[i]]

\* lines 710-711, 588-589: no year means the current one
TargetYear(y) == IF y = None THEN CurrentYear ELSE y

\* models.py lines 244-249: the rows Member.get_total_volume reads: the
\* agent on either side, Closed, closed in the year; no property type
VolumeRows(table, member_key_numeric, y) ==
    {i \in 1..Len(table) :
        /\ \/ table[i].list_agent_key_numeric = member_key_numeric
           \/ table[i].buyer_agent_key_numeric = member_key_numeric
        /\ table[i].standard_status = "Closed"
        /\ table[i].close_date = y}

\* models.py lines 251-256: the sum of their close prices, each row once
RECURSIVE SumClosePrices(_, _)
SumClosePrices(table, S) ==
    IF S = {} THEN 0
    ELSE LET i == CHOOSE x \in S : TRUE
         IN  PriceOf(table[i]) + SumClosePrices(table, S \ {i})

\* models.py lines 231-256: Member.get_total_volume(year)
get_total_volume(table, member_key_numeric, y) ==
    SumClosePrices(table, VolumeRows(table, member_key_numeric,
                                     TargetYear(y)))

\* run_full_sync is not running
NoOrch == [at |-> "none", year |-> None]

\* sync_mls_data lines 58-83: the options of the command
Options ==
    [full : BOOLEAN, year : {None} \cup {CurrentYear},
     members_only : BOOLEAN, properties_only : BOOLEAN,
     stats_only : BOOLEAN]

\* the command is not running and has not run
NoCommand ==
    [at |-> "none",
     options |-> [full |-> FALSE, year |-> None, members_only |-> FALSE,
                  properties_only |-> FALSE, stats_only |-> FALSE],
     ended |-> "none", failed |-> FALSE]

\* the sync processes that run side by side
Workers == {1, 2}

\* a process that runs no sync
NoWorker ==
    [at |-> "none", sync_type |-> "", record |-> [MemberKeyNumeric |-> None],
     sync_log |-> NoSyncLog,
     last_timestamp |-> None, records_processed |-> 0,
     records_created |-> 0, records_updated |-> 0]

\* the one record the upstream serves to both processes
RaceRecords(type) ==
    IF type = MEMBERS
    THEN {d \in MemberRecords :
             d.MemberKeyNumeric = 1 /\ d.ModificationTimestamp = 1}
    ELSE {d \in PropertyRecords :
             d.ModificationTimestamp = 1 /\ d.CloseDate = CurrentYear}

\* no recompute ended in this step
NoStats == [year |-> None, stats_updated |-> 0, outcome |-> "none"]

(* ------------------------------- Init --------------------------------- *)
InitState ==
    /\ members = << >>
    /\ properties = << >>
    /\ logs = << >>
    /\ clock = 1
    /\ pc = "idle"
    /\ sync_type = ""
    /\ full_sync = FALSE
    /\ sync_log = NoSyncLog
    /\ records_processed = 0
    /\ records_created = 0
    /\ records_updated = 0
    /\ last_timestamp = None
    /\ page_num = 0
    /\ page_len = 0
    /\ page_left = 0
    /\ next_link = "none"
    /\ result = "none"
    /\ last_op = "none"
    /\ last_cmp = "none"
    /\ max_fetched = None
    /\ fetched_n = 0
    /\ first_error_at = 0
    /\ diverged = FALSE
    /\ served = 0
    /\ last_fetch = "none"
    /\ requests = 0
    /\ recovered = FALSE
    /\ year = None
    /\ orch = NoOrch
    /\ command = NoCommand
    /\ errors = [run |-> {}, completed |-> {}, skipped |-> {}]
    /\ workers = [i \in Workers |-> NoWorker]
    /\ agent_stats = << >>
    /\ last_stats = NoStats

Init ==
    /\ InitState
    /\ limits = [runs |-> MaxRuns, pages |-> MaxPages, records |-> MaxRecords,
                 recomputes |-> 0, years |-> {CurrentYear}]

InitLong ==
    /\ InitState
    /\ limits = [runs |-> LongRuns, pages |-> LongPages,
                 records |-> LongRecords, recomputes |-> 0,
                 years |-> {CurrentYear}]

InitFull ==
    /\ InitState
    /\ limits = [runs |-> FullRuns, pages |-> FullPages,
                 records |-> FullRecords, recomputes |-> 0, years |-> Years]

InitCmd ==
    /\ InitState
    /\ limits = [runs |-> CmdRuns, pages |-> CmdPages,
                 records |-> CmdRecords, recomputes |-> CmdRecomputes,
                 years |-> {CurrentYear}]

InitRace ==
    /\ InitState
    /\ limits = [runs |-> RaceRuns, pages |-> 1, records |-> 1,
                 recomputes |-> 0, years |-> {CurrentYear}]

InitAgg ==
    /\ InitState
    /\ limits = [runs |-> 0, pages |-> 0, records |-> AggRecords,
                 recomputes |-> AggRecomputes, years |-> Years]

(* ---------------------- pieces shared by actions ---------------------- *)
\* lines 41-54: a member sync starts with no record failed
AtStart(e, type) ==
    IF type = MEMBERS THEN [e EXCEPT !.run = {}, !.skipped = {}] ELSE e

\* lines 198-203: a member sync completed; the records lines 169-171
\* logged and passed over in it
AfterSuccess(e, type) ==
    IF type = MEMBERS THEN [e EXCEPT !.completed = e.run] ELSE e

\* lines 210-216: a member sync did not complete
AfterFailure(e, type) ==
    IF type = MEMBERS THEN [e EXCEPT !.completed = {}] ELSE e

\* the invocation is over: its locals are gone
ForgetLocals ==
    /\ pc' = "idle"
    /\ UNCHANGED <<sync_type, full_sync>>
    /\ sync_log' = NoSyncLog
    /\ records_processed' = 0
    /\ records_created' = 0
    /\ records_updated' = 0
    /\ last_timestamp' = None
    /\ page_num' = 0
    /\ page_len' = 0
    /\ page_left' = 0
    /\ next_link' = "none"

\* the step made the request number count for a page, with this outcome
FetchObs(outcome, count, rec) ==
    /\ last_fetch' = outcome
    /\ requests' = count
    /\ recovered' = rec

\* the step made no request
NoFetch ==
    /\ last_fetch' = "none"
    /\ requests' = 0
    /\ UNCHANGED recovered

\* the step is no recompute and leaves the AgentStats table alone
NoRecompute ==
    /\ last_stats' = NoStats
    /\ UNCHANGED agent_stats

\* lines 817-825: where run_full_sync stands once the sync it called returned
AfterReturn(o) ==
    IF o.at = "members" THEN [o EXCEPT !.at = "properties_due"]
    ELSE IF o.at = "properties" THEN [o EXCEPT !.at = "stats_due"]
    ELSE o

\* a mutant: the except handler stores the failure and does not re-raise
Raise_swallow(message) ==
    /\ logs' = Save(logs, RecordFailure(sync_log, message, clock))
    /\ clock' = clock + 1
    /\ result' = "returned"
    /\ ForgetLocals
    /\ last_op' = "none"
    /\ last_cmp' = "none"
    /\ NoFetch
    /\ orch' = AfterReturn(orch)
    /\ NoRecompute
    /\ UNCHANGED workers
    /\ errors' = AfterFailure(errors, sync_type)
    /\ UNCHANGED year
    /\ UNCHANGED <<members, properties, max_fetched, fetched_n,
                   first_error_at, diverged, envvars>>

\* a mutant: the except handler deletes the log row of the failed run
Raise_droplog(message) ==
    /\ logs' = SubSeq(logs, 1, Len(logs) - 1)
    /\ clock' = clock + 1
    /\ result' = "raised"
    /\ ForgetLocals
    /\ last_op' = "none"
    /\ last_cmp' = "none"
    /\ IF pc \in {"fetch", "retry"}
       THEN FetchObs(IF message = "RateLimitError" THEN "rate" ELSE "error",
                     IF pc = "fetch" THEN 1 ELSE requests + 1, recovered)
       ELSE NoFetch
    /\ orch' = NoOrch
    /\ NoRecompute
    /\ UNCHANGED workers
    /\ errors' = AfterFailure(errors, sync_type)
    /\ UNCHANGED year
    /\ UNCHANGED <<members, properties, max_fetched, fetched_n,
                   first_error_at, diverged, envvars>>

\* lines 210-216 / 690-696: the outer except handler, then raise; the
\* exception leaves run_full_sync as well
Raise(message) ==
    /\ logs' = Save(logs, RecordFailure(sync_log, message, clock))
    /\ clock' = clock + 1
    /\ result' = "raised"
    /\ ForgetLocals
    /\ last_op' = "none"
    /\ last_cmp' = "none"
    /\ IF pc \in {"fetch", "retry"}
       THEN FetchObs(IF message = "RateLimitError" THEN "rate" ELSE "error",
                     IF pc = "fetch" THEN 1 ELSE requests + 1, recovered)
       ELSE NoFetch
    /\ orch' = NoOrch
    /\ NoRecompute
    /\ UNCHANGED workers
    /\ errors' = AfterFailure(errors, sync_type)
    /\ UNCHANGED year
    /\ UNCHANGED <<members, properties, max_fetched, fetched_n,
                   first_error_at, diverged, envvars>>

\* lines 198-218 / 678-698: store the counters, complete, return
Return ==
    /\ logs' = Save(logs, RecordSuccess(sync_log, records_processed,
                              records_created, records_updated, clock))
    /\ clock' = clock + 1
    /\ result' = "returned"
    /\ ForgetLocals
    /\ last_op' = "none"
    /\ last_cmp' = "none"
    /\ IF pc \in {"fetch", "retry"}
       THEN FetchObs("ok", IF pc = "fetch" THEN 1 ELSE requests + 1,
                     recovered \/ pc = "retry")
       ELSE NoFetch
    /\ orch' = AfterReturn(orch)
    /\ NoRecompute
    /\ UNCHANGED workers
    /\ errors' = AfterSuccess(errors, sync_type)
    /\ UNCHANGED year
    /\ UNCHANGED <<members, properties, max_fetched, fetched_n,
                   first_error_at, diverged, envvars>>

\* a page of n records arrived
Receive(n, link) ==
    /\ page_len' = n
    /\ page_left' = n
    /\ next_link' = link
    /\ fetched_n' = fetched_n + n
    /\ served' = served + n
    /\ last_op' = "none"
    /\ last_cmp' = "none"
    /\ FetchObs("ok", IF pc = "fetch" THEN 1 ELSE requests + 1,
                recovered \/ pc = "retry")
    /\ NoRecompute
    /\ UNCHANGED workers
    /\ UNCHANGED errors
    /\ UNCHANGED <<year, orch>>
    /\ UNCHANGED <<limits, dbvars, sync_type, full_sync, sync_log, records_processed,
                   records_created, records_updated, last_timestamp, result,
                   max_fetched, first_error_at, diverged>>

\* the invocation moves to another position and nothing else changes
Goto(position) ==
    /\ pc' = position
    /\ last_op' = "none"
    /\ last_cmp' = "none"
    /\ IF position = "retry" THEN FetchObs("rate", 1, recovered) ELSE NoFetch
    /\ NoRecompute
    /\ UNCHANGED workers
    /\ UNCHANGED errors
    /\ UNCHANGED <<year, orch>>
    /\ UNCHANGED <<dbvars, sync_type, full_sync, sync_log, records_processed,
                   records_created, records_updated, last_timestamp, page_num,
                   page_len, page_left, next_link, result, max_fetched,
                   fetched_n, first_error_at, diverged, envvars>>

(* ------------------------------ actions ------------------------------- *)
\* sync_members / sync_properties are called: the log row is created in
\* started state (lines 51-54 / 591-594)
StartSync(type, full) ==
    /\ pc = "idle"
    /\ Len(logs) < limits.runs
    /\ LET c == CreateSyncLog(logs, type, clock)
       IN  /\ logs' = c.table
           /\ sync_log' = c.obj
    /\ clock' = clock + 1
    /\ pc' = "client"
    /\ sync_type' = type
    /\ full_sync' = full
    /\ result' = "none"
    /\ last_op' = "none"
    /\ last_cmp' = "none"
    /\ max_fetched' = None
    /\ fetched_n' = 0
    /\ first_error_at' = 0
    /\ diverged' = FALSE
    /\ FetchObs("none", 0, FALSE)
    /\ NoRecompute
    /\ UNCHANGED workers
    /\ errors' = AtStart(errors, type)
    /\ UNCHANGED <<members, properties, records_processed, records_created,
                   records_updated, last_timestamp, page_num, page_len,
                   page_left, next_link, envvars>>

\* lines 41-43: sync_members(full_sync) called on its own
SyncMembersCall ==
    /\ orch.at = "none"
    /\ \E full \in BOOLEAN : StartSync(MEMBERS, full)
    /\ year' = None
    /\ UNCHANGED orch
    /\ UNCHANGED command

\* lines 574-589: sync_properties(year, full_sync) called on its own; no
\* year means the current one
SyncPropertiesCall ==
    /\ orch.at = "none"
    /\ \E full \in BOOLEAN : StartSync(PROPERTIES, full)
    /\ \E y \in {None} \cup limits.years :
          year' = TargetYear(y)
    /\ UNCHANGED orch
    /\ UNCHANGED command

\* lines 57-68 / 597-611: get_mls_client, the counters, the floor
GetClient ==
    /\ pc = "client"
    /\ \E token \in BOOLEAN :
          IF ~token
          THEN Raise("WFRMLS_BEARER_TOKEN not configured in settings")
          ELSE /\ pc' = "fetch"
               /\ last_timestamp' =
                      IF sync_type = MEMBERS
                      THEN IncrementalFloor(logs, full_sync)
                      ELSE None
               /\ last_op' = "none"
               /\ last_cmp' = "none"
               /\ NoFetch
               /\ NoRecompute
               /\ UNCHANGED workers
               /\ UNCHANGED errors
               /\ UNCHANGED <<year, orch>>
               /\ UNCHANGED <<dbvars, sync_type, full_sync, sync_log,
                              records_processed, records_created,
                              records_updated, page_num, page_len, page_left,
                              next_link, result, max_fetched, fetched_n,
                              first_error_at, diverged, envvars>>
    /\ UNCHANGED command

\* the links the upstream may attach to page number n of a member listing
LinksOfPage(n) == IF n < limits.pages THEN NextLinks ELSE {"none", "plain"}

\* the lengths the upstream may give a member page
MemberPageLengths == {n \in 0..PageSize : served + n <= limits.records}

\* the lengths the upstream may give page number n of a property listing
LengthsOfPage(n) ==
    {k \in 0..PageSize :
        /\ served + k <= limits.records
        /\ n >= limits.pages => k < PageSize}

\* line 73: the first member page; no handler for RateLimitError here
MembersFirstFetch ==
    /\ pc = "fetch" /\ sync_type = MEMBERS /\ page_num = 0
    /\ \/ \E n \in MemberPageLengths, link \in LinksOfPage(1) :
             /\ Receive(n, link)
             /\ page_num' = 1
             /\ pc' = "loop"
       \/ Raise("RateLimitError")
       \/ Raise("ConnectionError")
    /\ UNCHANGED command

\* lines 186-189: a later member page, first attempt
MembersNextFetch ==
    /\ pc = "fetch" /\ sync_type = MEMBERS /\ page_num > 0
    /\ \/ \E n \in MemberPageLengths, link \in LinksOfPage(page_num + 1) :
             /\ Receive(n, link)
             /\ page_num' = page_num + 1
             /\ pc' = "loop"
       \/ Goto("retry")
       \/ Raise("ConnectionError")
    /\ UNCHANGED command

\* lines 190-193: the retry after the 30 second wait
MembersRetryFetch ==
    /\ pc = "retry" /\ sync_type = MEMBERS
    /\ \/ \E n \in MemberPageLengths, link \in LinksOfPage(page_num + 1) :
             /\ Receive(n, link)
             /\ page_num' = page_num + 1
             /\ pc' = "loop"
       \/ Raise("RateLimitError")
       \/ Raise("ConnectionError")
    /\ UNCHANGED command

\* lines 78-171: one iteration of the member loop
ProcessMember ==
    /\ pc = "loop" /\ sync_type = MEMBERS /\ page_left > 0
    /\ \E member_data \in MemberRecords, db_error \in BOOLEAN :
          LET st == MemberStep(member_data, last_timestamp, db_error,
                               IterState(members))
              asfull == MemberStep(member_data, IncrementalFloor(logs, TRUE),
                                   db_error, IterState(members))
              ts == member_data.ModificationTimestamp
          IN  /\ members' = st.table
              /\ records_processed' = st.records_processed
              /\ records_created' = st.records_created
              /\ records_updated' = st.records_updated
              /\ sync_log' = [sync_log EXCEPT
                     !.row.last_modification_timestamp =
                         st.last_modification_timestamp]
              /\ last_op' = st.op
              /\ last_cmp' = CompareToWatermark(ts, MEMBERS)
              /\ max_fetched' = IF ts \in Timestamps
                                THEN MaxOf(max_fetched, ts) ELSE max_fetched
              /\ first_error_at' =
                     IF first_error_at = 0 /\ st.op = "error"
                     THEN fetched_n - page_left + 1
                     ELSE first_error_at
              /\ diverged' = (diverged \/ st # asfull)
              /\ errors' = IF st.op = "error"
                            THEN [errors EXCEPT !.run = @ \cup {member_data}]
                            ELSE IF st.op = "skip"
                            THEN [errors EXCEPT
                                     !.skipped = @ \cup {member_data}]
                            ELSE errors
    /\ page_left' = page_left - 1
    /\ NoFetch
    /\ NoRecompute
    /\ UNCHANGED workers
    /\ UNCHANGED <<year, orch>>
    /\ UNCHANGED <<properties, logs, clock, pc, sync_type, full_sync,
                   last_timestamp, page_num, page_len, next_link, result,
                   fetched_n, envvars>>
    /\ UNCHANGED command

\* lines 173-196: after the page, follow the link or leave the loop
MembersPageDone ==
    /\ pc = "loop" /\ sync_type = MEMBERS /\ page_left = 0
    /\ IF next_link = "query" THEN Goto("fetch") ELSE Return
    /\ UNCHANGED command

\* a mutant: one retry for the whole run; once a retry has succeeded a
\* rate limit is propagated at once
PropertiesFetch_runbudget ==
    /\ pc = "fetch" /\ sync_type = PROPERTIES
    /\ \/ \E n \in LengthsOfPage(page_num + 1) :
             IF n = 0
             THEN Return
             ELSE /\ Receive(n, "none")
                  /\ page_num' = page_num + 1
                  /\ pc' = "loop"
       \/ IF recovered THEN Raise("RateLimitError") ELSE Goto("retry")
       \/ Raise("ConnectionError")
    /\ UNCHANGED command

\* lines 612-624 and 634-637: a property page, first attempt; page_num
\* here counts the pages received, the page asked for is page_num + 1 and
\* its offset is skip = page_num * PageSize
PropertiesFetch ==
    /\ pc = "fetch" /\ sync_type = PROPERTIES
    /\ \/ \E n \in LengthsOfPage(page_num + 1) :
             IF n = 0
             THEN Return
             ELSE /\ Receive(n, "none")
                  /\ page_num' = page_num + 1
                  /\ pc' = "loop"
       \/ Goto("retry")
       \/ Raise("ConnectionError")
    /\ UNCHANGED command

\* a mutant: a rate-limited retry waits and asks for the page afresh
PropertiesRetryFetch_again ==
    /\ pc = "retry" /\ sync_type = PROPERTIES
    /\ \/ \E n \in LengthsOfPage(page_num + 1) :
             IF n = 0
             THEN Return
             ELSE /\ Receive(n, "none")
                  /\ page_num' = page_num + 1
                  /\ pc' = "loop"
       \/ Goto("fetch")
       \/ Raise("ConnectionError")
    /\ UNCHANGED command

\* lines 625-637: the retry of the same page after the 30 second wait
PropertiesRetryFetch ==
    /\ pc = "retry" /\ sync_type = PROPERTIES
    /\ \/ \E n \in LengthsOfPage(page_num + 1) :
             IF n = 0
             THEN Return
             ELSE /\ Receive(n, "none")
                  /\ page_num' = page_num + 1
                  /\ pc' = "loop"
       \/ Raise("RateLimitError")
       \/ Raise("ConnectionError")
    /\ UNCHANGED command

\* lines 641-672: one iteration of the property loop
ProcessProperty ==
    /\ pc = "loop" /\ sync_type = PROPERTIES /\ page_left > 0
    /\ \E property_data \in ListingsOfYear(year), db_error \in BOOLEAN :
          LET st == PropertyStep(property_data, db_error,
                                 IterState(properties))
              ts == property_data.ModificationTimestamp
          IN  /\ properties' = st.table
              /\ records_processed' = st.records_processed
              /\ records_created' = st.records_created
              /\ records_updated' = st.records_updated
              /\ sync_log' = [sync_log EXCEPT
                     !.row.last_modification_timestamp =
                         st.last_modification_timestamp]
              /\ last_op' = st.op
              /\ last_cmp' = CompareToWatermark(ts, PROPERTIES)
              /\ max_fetched' = IF ts \in Timestamps
                                THEN MaxOf(max_fetched, ts) ELSE max_fetched
              /\ first_error_at' =
                     IF first_error_at = 0 /\ st.op = "error"
                     THEN fetched_n - page_left + 1
                     ELSE first_error_at
    /\ page_left' = page_left - 1
    /\ NoFetch
    /\ NoRecompute
    /\ UNCHANGED workers
    /\ UNCHANGED errors
    /\ UNCHANGED <<year, orch>>
    /\ UNCHANGED <<members, logs, clock, pc, sync_type, full_sync,
                   last_timestamp, page_num, page_len, next_link, result,
                   fetched_n, diverged, envvars>>
    /\ UNCHANGED command

\* a mutant: only an empty page ends the loop
PropertiesPageDone_untilempty ==
    /\ pc = "loop" /\ sync_type = PROPERTIES /\ page_left = 0
    /\ Goto("fetch")
    /\ UNCHANGED command

\* lines 674-676: a short page ends the loop, a full one asks for the next
PropertiesPageDone ==
    /\ pc = "loop" /\ sync_type = PROPERTIES /\ page_left = 0
    /\ IF page_len < PageSize THEN Return ELSE Goto("fetch")
    /\ UNCHANGED command

\* the process is killed in the middle of an invocation: nothing is written
Kill ==
    /\ pc # "idle"
    /\ result' = "killed"
    /\ ForgetLocals
    /\ last_op' = "none"
    /\ last_cmp' = "none"
    /\ NoFetch
    /\ NoRecompute
    /\ UNCHANGED workers
    /\ errors' = AfterFailure(errors, sync_type)
    /\ orch' = NoOrch
    /\ UNCHANGED year
    /\ UNCHANGED <<dbvars, max_fetched, fetched_n, first_error_at, diverged,
                   envvars>>
    /\ UNCHANGED command

(* --------------------- aggregation, run_full_sync --------------------- *)
\* lines 701-801: calculate_agent_stats(year). The writes are not in a
\* transaction: an error at the write of bucket k + 1, or in the ranking
\* pass, leaves the rows written before it
CalculateAgentStats(y) ==
    /\ pc = "idle"
    /\ LET vols == AgentVolumes(properties, y, Len(properties))
       IN  \E k \in 0..Len(vols), ranked \in BOOLEAN :
              LET p == PersistBuckets(agent_stats, members, y, vols, k)
                  S == RowsOfYear(p.table, y)
              IN  IF k = Len(vols) /\ ranked
                  THEN \E f \in Orders(p.table, S),
                          g \in AorOrders(p.table, S) :
                          /\ agent_stats' = Ranked(p.table, S, f, g)
                          /\ last_stats' =
                                 [year |-> y,
                                  stats_updated |-> p.stats_updated,
                                  outcome |-> "returned"]
                  ELSE /\ agent_stats' = p.table
                       /\ last_stats' = [year |-> y, stats_updated |-> 0,
                                         outcome |-> "raised"]
    /\ clock' = clock + 1
    /\ last_op' = "none"
    /\ last_cmp' = "none"
    /\ NoFetch
    /\ UNCHANGED <<errors, workers>>
    /\ UNCHANGED <<members, properties, logs, runvars, max_fetched,
                   fetched_n, first_error_at, diverged, envvars>>

\* calculate_agent_stats(year) called on its own
CalculateAgentStatsCall ==
    /\ orch.at = "none"
    /\ clock <= limits.recomputes
    /\ \E y \in {TargetYear(x) : x \in {None} \cup limits.years} :
          CalculateAgentStats(y)
    /\ UNCHANGED <<year, orch>>
    /\ UNCHANGED command

\* lines 154-158 as a member sync runs them for one record: the agent
\* becomes known
ReconcileMember ==
    /\ pc = "idle" /\ orch.at = "none"
    /\ \E key \in AgentKeys :
          members' = update_or_create(
                         members, MemberMatches(members, key),
                         MemberRow([MemberKeyNumeric |-> key,
                                    ModificationTimestamp |-> 1])).table
    /\ last_op' = "none"
    /\ last_cmp' = "none"
    /\ NoFetch
    /\ NoRecompute
    /\ UNCHANGED workers
    /\ UNCHANGED errors
    /\ UNCHANGED <<properties, logs, clock, runvars, max_fetched, fetched_n,
                   first_error_at, diverged, envvars, year, orch>>
    /\ UNCHANGED command

\* lines 221-571: process_single_property on a record of a listing whose
\* upstream data may have changed since it was last reconciled
ReconcileListing ==
    /\ pc = "idle" /\ orch.at = "none"
    /\ served < limits.records
    /\ \E property_data \in ListingRecords :
          properties' =
              process_single_property(properties, property_data).table
    /\ served' = served + 1
    /\ last_op' = "none"
    /\ last_cmp' = "none"
    /\ NoFetch
    /\ NoRecompute
    /\ UNCHANGED workers
    /\ UNCHANGED errors
    /\ UNCHANGED <<members, logs, clock, runvars, max_fetched, fetched_n,
                   first_error_at, diverged, limits, year, orch>>
    /\ UNCHANGED command

\* lines 813-817: run_full_sync(year) starts with sync_members(full_sync=True)
RunFullSync ==
    /\ orch.at = "none"
    /\ Len(logs) + 2 <= limits.runs
    /\ StartSync(MEMBERS, TRUE)
    /\ \E y \in {None} \cup limits.years :
          orch' = [at |-> "members", year |-> y]
    /\ year' = None
    /\ UNCHANGED command

\* a mutant: the property sync is called without the year
FullSyncProperties_noyear ==
    /\ orch.at = "properties_due"
    /\ StartSync(PROPERTIES, TRUE)
    /\ year' = CurrentYear
    /\ orch' = [orch EXCEPT !.at = "properties"]
    /\ UNCHANGED command

\* lines 819-821: sync_properties(year=year, full_sync=True), once the
\* member sync has returned
FullSyncProperties ==
    /\ orch.at = "properties_due"
    /\ StartSync(PROPERTIES, TRUE)
    /\ year' = TargetYear(orch.year)
    /\ orch' = [orch EXCEPT !.at = "properties"]
    /\ UNCHANGED command

\* lines 823-827: calculate_agent_stats(year=year), once the property sync
\* has returned, and the result is returned
FullSyncStats ==
    /\ orch.at = "stats_due"
    /\ CalculateAgentStats(TargetYear(orch.year))
    /\ orch' = NoOrch
    /\ UNCHANGED year
    /\ UNCHANGED command

(* ---------------------- the sync_mls_data command --------------------- *)
\* the command is inside the step `at`
Running(options, at) ==
    [at |-> at, options |-> options, ended |-> "none", failed |-> FALSE]

\* sync_mls_data lines 111-114, 158-166 / 168-171: the command ended by
\* reporting, or in its except handler, which re-raises; failed tells
\* whether a step it called raised
Ended(options, ended, failed) ==
    [at |-> "none", options |-> options, ended |-> ended, failed |-> failed]

\* a step of the command that only writes to stdout
CommandOutput ==
    /\ last_op' = "none"
    /\ last_cmp' = "none"
    /\ NoFetch
    /\ NoRecompute
    /\ UNCHANGED workers
    /\ UNCHANGED errors
    /\ UNCHANGED <<dbvars, runvars, max_fetched, fetched_n, first_error_at,
                   diverged, envvars, year, orch>>

\* sync_mls_data lines 107-114, 155-166: calculate_agent_stats(year=year)
\* and the success message, or the except handler when it raised
CommandStats(options) ==
    /\ CalculateAgentStats(TargetYear(options.year))
    /\ command' = IF last_stats'.outcome = "returned"
                  THEN Ended(options, "reported", FALSE)
                  ELSE Ended(options, "raised", TRUE)
    /\ UNCHANGED <<year, orch>>

\* sync_mls_data lines 144-146: sync_properties(year=year,
\* full_sync=full_sync)
CommandProperties(options) ==
    /\ StartSync(PROPERTIES, options.full)
    /\ year' = TargetYear(options.year)
    /\ command' = Running(options, "properties")
    /\ UNCHANGED orch

\* sync_mls_data lines 92-146: the command is started with its options and
\* runs up to the first call it makes
Handle ==
    /\ command.at = "none" /\ orch.at = "none" /\ pc = "idle"
    /\ \E options \in Options :
          IF options.stats_only
          THEN clock <= limits.recomputes /\ CommandStats(options)
          ELSE IF options.full
                  /\ ~(options.members_only \/ options.properties_only)
          THEN /\ Len(logs) + 2 <= limits.runs
               /\ StartSync(MEMBERS, TRUE)
               /\ orch' = [at |-> "members",
                           year |-> TargetYear(options.year)]
               /\ year' = None
               /\ command' = Running(options, "full")
          ELSE IF ~options.properties_only
          THEN /\ Len(logs) + 2 <= limits.runs
               /\ StartSync(MEMBERS, options.full)
               /\ year' = None
               /\ command' = Running(options, "members")
               /\ UNCHANGED orch
          ELSE IF ~options.members_only
          THEN /\ Len(logs) + 2 <= limits.runs
               /\ CommandProperties(options)
          ELSE clock <= limits.recomputes /\ CommandStats(options)

\* sync_mls_data lines 136-160: sync_members returned; the property sync
\* unless --members-only, then the recompute
HandleAfterMembers ==
    /\ command.at = "members" /\ pc = "idle" /\ result = "returned"
    /\ IF ~command.options.members_only
       THEN CommandProperties(command.options)
       ELSE CommandStats(command.options)

\* sync_mls_data lines 147-166: sync_properties returned; the recompute
HandleAfterProperties ==
    /\ command.at = "properties" /\ pc = "idle" /\ result = "returned"
    /\ CommandStats(command.options)

\* sync_mls_data lines 119-130, 168-171: run_full_sync returned its dict;
\* the loop over results.items() prints the members and the properties
\* entry and then reads records_processed of results["stats_updated"],
\* an int: AttributeError, caught by the except handler, which re-raises
HandleResults ==
    /\ command.at = "full" /\ orch.at = "none" /\ pc = "idle"
    /\ result = "returned" /\ last_stats.outcome = "returned"
    /\ command' = Ended(command.options, "raised", FALSE)
    /\ CommandOutput

\* sync_mls_data lines 168-171: a sync, or the recompute of run_full_sync,
\* raised: the except handler writes the error and re-raises
HandleExcept ==
    /\ command.at \in {"full", "members", "properties"} /\ pc = "idle"
    /\ \/ result = "raised"
       \/ /\ command.at = "full" /\ orch.at = "none"
          /\ last_stats.outcome = "raised"
    /\ command' = Ended(command.options, "raised", TRUE)
    /\ CommandOutput

(* --------------------- two syncs side by side ------------------------- *)
\* models.py lines 25-27, 641-646: the rows of the table that the unique
\* constraint of the type sets against a new row; in a unique index a
\* NULL equals nothing, so a key with an absent component is never taken
\* (the status of a served record is never absent)
UniqueConflicts(type, d) ==
    IF type = MEMBERS
    THEN {i \in 1..Len(members) :
             members[i].member_key_numeric = d.MemberKeyNumeric}
    ELSE {i \in 1..Len(properties) :
             /\ properties[i].listing_key_numeric = d.ListingKeyNumeric
             /\ properties[i].buyer_agent_key_numeric
                    = d.BuyerAgentKeyNumeric
             /\ properties[i].list_agent_key_numeric = d.ListAgentKeyNumeric
             /\ properties[i].standard_status = d.StandardStatus
             /\ d.ListingKeyNumeric # None
             /\ d.BuyerAgentKeyNumeric # None
             /\ d.ListAgentKeyNumeric # None}

\* the rows the lookup of update_or_create matches now
RaceMatches(type, d) ==
    IF type = MEMBERS THEN MemberMatches(members, d.MemberKeyNumeric)
    ELSE PropertyMatches(properties, d)

\* the row is written with the values of the record
RaceUpdate(type, d, i) ==
    IF type = MEMBERS
    THEN /\ members' = [members EXCEPT ![i] = MemberRow(d)]
         /\ UNCHANGED properties
    ELSE /\ properties' = [properties EXCEPT ![i] = PropertyRow(d)]
         /\ UNCHANGED members

\* a row with the values of the record is inserted
RaceInsert(type, d) ==
    IF type = MEMBERS
    THEN /\ members' = Append(members, MemberRow(d))
         /\ UNCHANGED properties
    ELSE /\ properties' = Append(properties, PropertyRow(d))
         /\ UNCHANGED members

\* what a step of one of the two processes leaves alone
RaceFrame ==
    /\ last_op' = "none"
    /\ last_cmp' = "none"
    /\ NoFetch
    /\ NoRecompute
    /\ UNCHANGED <<runvars, max_fetched, fetched_n, first_error_at, diverged,
                   envvars, year, orch, command, errors>>

\* lines 41-68 / 574-611: process w calls a sync: the log row is created
\* and the floor is read; the upstream will serve it the record that it
\* serves the other process
RaceStart(w) ==
    /\ workers[w].at = "none"
    /\ pc = "idle" /\ orch.at = "none" /\ command.at = "none"
    /\ Len(logs) < limits.runs
    /\ \E type \in {MEMBERS, PROPERTIES}, full_run \in BOOLEAN :
       \E d \in RaceRecords(type) :
          /\ \A v \in Workers :
                workers[v].sync_type # "" =>
                    workers[v].sync_type = type /\ workers[v].record = d
          /\ LET c == CreateSyncLog(logs, type, clock)
             IN  /\ logs' = c.table
                 /\ workers' =
                        [workers EXCEPT ![w] =
                            [NoWorker EXCEPT
                                !.at = "get",
                                !.sync_type = type,
                                !.record = d,
                                !.sync_log = c.obj,
                                !.last_timestamp =
                                    IF type = MEMBERS
                                    THEN IncrementalFloor(logs, full_run)
                                    ELSE None]]
    /\ clock' = clock + 1
    /\ UNCHANGED <<members, properties>>
    /\ RaceFrame

\* lines 78-104 / 641-660 and the first half of update_or_create: the
\* record is counted, its timestamp tracked, and unless the floor skips
\* it the row is looked up; a row that is found is locked and updated
RaceGet(w) ==
    /\ workers[w].at = "get"
    /\ LET me == workers[w]
           d == me.record
           tracked ==
               [me EXCEPT !.records_processed = @ + 1,
                          !.sync_log.row.last_modification_timestamp =
                              TrackTimestamp(@, d.ModificationTimestamp)]
           matches == RaceMatches(me.sync_type, d)
       IN  IF me.last_timestamp # None
              /\ d.ModificationTimestamp <= me.last_timestamp
           THEN /\ workers' = [workers EXCEPT ![w] =
                                  [tracked EXCEPT !.at = "end"]]
                /\ UNCHANGED <<members, properties>>
           ELSE IF matches = {}
           THEN /\ workers' = [workers EXCEPT ![w] =
                                  [tracked EXCEPT !.at = "create"]]
                /\ UNCHANGED <<members, properties>>
           ELSE IF Cardinality(matches) = 1
           THEN /\ RaceUpdate(me.sync_type, d, CHOOSE i \in matches : TRUE)
                /\ workers' = [workers EXCEPT ![w] =
                                  [tracked EXCEPT !.at = "end",
                                                  !.records_updated = @ + 1]]
           ELSE /\ workers' = [workers EXCEPT ![w] =
                                  [tracked EXCEPT !.at = "end"]]
                /\ UNCHANGED <<members, properties>>
    /\ UNCHANGED <<logs, clock>>
    /\ RaceFrame

\* the second half of update_or_create, for a lookup that found no row:
\* the INSERT; when the unique constraint refuses it (IntegrityError)
\* the row is looked up again and updated
RaceCreate(w) ==
    /\ workers[w].at = "create"
    /\ LET me == workers[w]
           d == me.record
           matches == RaceMatches(me.sync_type, d)
       IN  IF UniqueConflicts(me.sync_type, d) = {}
           THEN /\ RaceInsert(me.sync_type, d)
                /\ workers' = [workers EXCEPT ![w] =
                                  [me EXCEPT !.at = "end",
                                             !.records_created = @ + 1]]
           ELSE IF Cardinality(matches) = 1
           THEN /\ RaceUpdate(me.sync_type, d, CHOOSE i \in matches : TRUE)
                /\ workers' = [workers EXCEPT ![w] =
                                  [me EXCEPT !.at = "end",
                                             !.records_updated = @ + 1]]
           ELSE /\ workers' = [workers EXCEPT ![w] =
                                  [me EXCEPT !.at = "end"]]
                /\ UNCHANGED <<members, properties>>
    /\ UNCHANGED <<logs, clock>>
    /\ RaceFrame

\* lines 198-203 / 678-683: the page is done, the only one; the counters
\* are stored and the run completes
RaceReturn(w) ==
    /\ workers[w].at = "end"
    /\ LET me == workers[w]
       IN  /\ logs' = Save(logs, RecordSuccess(me.sync_log,
                                               me.records_processed,
                                               me.records_created,
                                               me.records_updated, clock))
           /\ workers' = [workers EXCEPT ![w] =
                             [NoWorker EXCEPT !.sync_type = me.sync_type,
                                              !.record = me.record]]
    /\ clock' = clock + 1
    /\ UNCHANGED <<members, properties>>
    /\ RaceFrame

Next ==
    \/ SyncMembersCall
    \/ SyncPropertiesCall
    \/ GetClient
    \/ MembersFirstFetch
    \/ MembersNextFetch
    \/ MembersRetryFetch
    \/ ProcessMember
    \/ MembersPageDone
    \/ PropertiesFetch
    \/ PropertiesRetryFetch
    \/ ProcessProperty
    \/ PropertiesPageDone
    \/ Kill

Spec == Init /\ [][Next]_vars

\* one invocation that is served more pages
SpecLong == InitLong /\ [][Next]_vars

\* the steps of a process that is not killed
NextLive ==
    \/ SyncMembersCall
    \/ SyncPropertiesCall
    \/ GetClient
    \/ MembersFirstFetch
    \/ MembersNextFetch
    \/ MembersRetryFetch
    \/ ProcessMember
    \/ MembersPageDone
    \/ PropertiesFetch
    \/ PropertiesRetryFetch
    \/ ProcessProperty
    \/ PropertiesPageDone

\* a process that keeps running: the sequential code takes its next step
\* whenever it has one (the waits of lines 185, 192, 629 are finite), and
\* the upstream listing is finite
SpecLive == InitLong /\ [][NextLive]_vars /\ WF_vars(NextLive)

\* the syncs called on their own or by run_full_sync
NextFull ==
    \/ Next
    \/ RunFullSync
    \/ FullSyncProperties
    \/ FullSyncStats

SpecFull == InitFull /\ [][NextFull]_vars

\* the command and the steps of what it calls
NextCmd ==
    \/ Handle
    \/ HandleAfterMembers
    \/ HandleAfterProperties
    \/ HandleResults
    \/ HandleExcept
    \/ FullSyncProperties
    \/ FullSyncStats
    \/ GetClient
    \/ MembersFirstFetch
    \/ MembersNextFetch
    \/ MembersRetryFetch
    \/ ProcessMember
    \/ MembersPageDone
    \/ PropertiesFetch
    \/ PropertiesRetryFetch
    \/ ProcessProperty
    \/ PropertiesPageDone

SpecCmd == InitCmd /\ [][NextCmd]_vars

\* two processes, each running syncs over the same record
NextRace ==
    \/ \E w \in Workers : RaceStart(w)
    \/ \E w \in Workers : RaceGet(w)
    \/ \E w \in Workers : RaceCreate(w)
    \/ \E w \in Workers : RaceReturn(w)

SpecRace == InitRace /\ [][NextRace]_vars

\* the stored data changes between recomputes
NextAgg ==
    \/ ReconcileMember
    \/ ReconcileListing
    \/ CalculateAgentStatsCall

SpecAgg == InitAgg /\ [][NextAgg]_vars

(* ======================= checked properties ========================== *)
\* a step that ran one iteration of a record loop
IterationStep == records_processed' = records_processed + 1

\* a step in which the running invocation ended by raising
RaiseStep == pc # "idle" /\ result' = "raised"

NaturalKey(row) ==
    <<row.listing_key_numeric, row.buyer_agent_key_numeric,
      row.list_agent_key_numeric, row.standard_status>>

UniqueMemberKeys(table) ==
    \A i, j \in 1..Len(table) :
        table[i].member_key_numeric = table[j].member_key_numeric => i = j

UniquePropertyKeys(table) ==
    \A i, j \in 1..Len(table) :
        NaturalKey(table[i]) = NaturalKey(table[j]) => i = j

\* the log row of the current or last invocation
LastLog == logs[Len(logs)]

\* C1: a reconciliation reports created only for a natural key that had no
\* row: on a key that has a row it reports an update, the tables keep their
\* size, and every natural key has at most one row.
C1_Idempotent ==
    [][IterationStep =>
         /\ last_op' = "created" =>
              IF sync_type = MEMBERS
              THEN /\ Len(members') = Len(members) + 1
                   /\ \A i \in 1..Len(members) :
                         members[i].member_key_numeric
                             # members'[Len(members')].member_key_numeric
              ELSE /\ Len(properties') = Len(properties) + 1
                   /\ \A i \in 1..Len(properties) :
                         NaturalKey(properties[i])
                             # NaturalKey(properties'[Len(properties')])
         /\ last_op' = "updated" =>
              /\ Len(members') = Len(members)
              /\ Len(properties') = Len(properties)
         /\ UniqueMemberKeys(members')
         /\ UniquePropertyKeys(properties')]_vars

\* C1 witness: a listing with an absent buyer agent was reconciled a second
\* time and its row was updated
C1_Witness ==
    /\ last_op = "updated"
    /\ sync_type = PROPERTIES
    /\ Len(properties) = 1
    /\ properties[1].buyer_agent_key_numeric = None

\* C2: a log row only goes started -> completed or started -> failed, a
\* completed or failed row is never written again, and an invocation always
\* appends a new started row.
C2_LogTransitions ==
    [][/\ Len(logs') >= Len(logs)
       /\ \A i \in 1..Len(logs) :
             /\ logs'[i].status # logs[i].status =>
                   /\ logs[i].status = STARTED
                   /\ logs'[i].status \in {COMPLETED, FAILED}
             /\ logs[i].status \in {COMPLETED, FAILED} => logs'[i] = logs[i]
       /\ (pc = "idle" /\ pc' # "idle") =>
             /\ Len(logs') = Len(logs) + 1
             /\ logs'[Len(logs')].status = STARTED
             /\ \A i \in 1..Len(logs) : logs'[i] = logs[i]]_vars

\* C2 witness: a failed run was followed by a new run of its type that
\* completed under a log of its own
C2_Witness ==
    /\ Len(logs) >= 2
    /\ logs[1].status = FAILED
    /\ logs[2].sync_type = logs[1].sync_type
    /\ logs[2].status = COMPLETED

\* C3: a stored log has completed_at set exactly when it is completed or
\* failed.
C3_CompletedAtIffTerminal ==
    \A i \in 1..Len(logs) :
        (logs[i].completed_at # None) <=> (logs[i].status \in {COMPLETED, FAILED})

\* C3 witness: the table holds a started row of a killed run, a failed row
\* and a completed row
C3_Witness ==
    /\ pc = "idle"
    /\ \E i, j, k \in 1..Len(logs) :
          /\ logs[i].status = STARTED
          /\ logs[j].status = FAILED
          /\ logs[k].status = COMPLETED

\* C4: among the completed runs of one type, a later run never stores a
\* smaller watermark than an earlier one (stated for the pairs in which both
\* runs stored a watermark).
C4_WatermarkMonotone ==
    \A i, j \in 1..Len(logs) :
        ( /\ i < j
          /\ logs[i].sync_type = logs[j].sync_type
          /\ logs[i].status = COMPLETED
          /\ logs[j].status = COMPLETED
          /\ logs[i].last_modification_timestamp # None
          /\ logs[j].last_modification_timestamp # None )
        => logs[i].last_modification_timestamp
               <= logs[j].last_modification_timestamp

\* C5: in an incremental run of either type with last completed watermark
\* T, an iteration over a record stamped <= T neither creates nor updates a
\* row, and an iteration over a record stamped > T is not filtered out.
C5_IncrementalFilter ==
    [][(IterationStep /\ ~full_sync) =>
         /\ last_cmp' = "le" => last_op' \notin {"created", "updated"}
         /\ last_cmp' = "gt" => last_op' # "skip"]_vars

\* the completed rows of the type of the current invocation that are older
\* than its own row
EarlierCompleted == CompletedOfType(logs, sync_type) \ {Len(logs)}

\* C6: an incremental invocation of a type with no earlier completed run
\* uses no floor, and each of its iterations has the effect on rows,
\* counters and watermark that the same iteration of a full sync has.
C6_FirstIncrementalIsFull ==
    (sync_type # "" /\ ~full_sync /\ EarlierCompleted = {}) =>
        /\ last_timestamp = None
        /\ ~diverged

\* C6 witness: an incremental member sync that found only a failed earlier
\* member run, which stored a timestamp, returned after reconciling a record
C6_Witness ==
    /\ sync_type = MEMBERS
    /\ ~full_sync
    /\ result = "returned"
    /\ EarlierCompleted = {}
    /\ \E i \in 1..(Len(logs) - 1) :
          /\ logs[i].sync_type = MEMBERS
          /\ logs[i].status = FAILED
          /\ logs[i].last_modification_timestamp # None
    /\ LastLog.records_created + LastLog.records_updated > 0

\* C7: the floor of an incremental member sync is the watermark of the
\* completed member log with the greatest completed_at (none when there is
\* no such log); no other log has a say.
C7_FloorFromLastCompleted ==
    (pc \in {"fetch", "retry", "loop"} /\ sync_type = MEMBERS /\ ~full_sync)
        => last_timestamp = LastCompletedWatermark(MEMBERS)

\* C7 witness: the floor is 2 although an older completed member run stored
\* 1 and the logs of other runs sit in the table
C7_Witness ==
    /\ pc = "fetch"
    /\ sync_type = MEMBERS
    /\ ~full_sync
    /\ last_timestamp = 2
    /\ Len(logs) = 3
    /\ logs[1].sync_type = MEMBERS
    /\ logs[1].status = COMPLETED
    /\ logs[1].last_modification_timestamp = 1
    /\ logs[2].status = COMPLETED

\* C8: the watermark a completed run stores is the largest parseable
\* timestamp among all records its pages delivered, skipped ones included.
C8_WatermarkIsMaxFetched ==
    result = "returned" => LastLog.last_modification_timestamp = max_fetched

\* C8 witness: an incremental member sync with floor 2 completed after its
\* only record, stamped 1, was skipped, and stored 1
C8_Witness ==
    /\ result = "returned"
    /\ sync_type = MEMBERS
    /\ ~full_sync
    /\ LastLog.records_processed = 1
    /\ LastLog.records_created + LastLog.records_updated = 0
    /\ LastLog.last_modification_timestamp = 1
    /\ \E i \in EarlierCompleted : logs[i].last_modification_timestamp = 2

\* C9: an iteration that raises leaves the run in its loop with the log
\* untouched, counts as processed and as neither created nor updated;
\* created + updated grows exactly on a successful reconciliation; a run
\* that returns is completed and has processed every delivered record.
C9_RecordErrorIsLocal ==
    [][/\ (IterationStep /\ last_op' = "error") =>
             /\ pc' = "loop"
             /\ logs' = logs
             /\ records_created' = records_created
             /\ records_updated' = records_updated
       /\ IterationStep =>
             ( (records_created' + records_updated'
                    = records_created + records_updated + 1)
               <=> last_op' \in {"created", "updated"} )
       /\ IterationStep =>
             (records_created' + records_updated'
                  \in {records_created + records_updated,
                       records_created + records_updated + 1})
       /\ (pc # "idle" /\ result' = "returned") =>
             /\ logs'[Len(logs')].status = COMPLETED
             /\ logs'[Len(logs')].records_processed = fetched_n
             /\ logs'[Len(logs')].records_created = records_created
             /\ logs'[Len(logs')].records_updated = records_updated]_vars

\* C9 witness (scenario B): 5 records delivered, the 4th raised, the run
\* completed with processed = 5 and created + updated = 4
C9_Witness ==
    /\ result = "returned"
    /\ LastLog.status = COMPLETED
    /\ LastLog.records_processed = 5
    /\ LastLog.records_created + LastLog.records_updated = 4
    /\ first_error_at = 4

\* C10: neither an iteration that raises nor the failure of the whole run
\* changes a Member or Property row.
C10_FailureKeepsRows ==
    [][((IterationStep /\ last_op' = "error") \/ RaiseStep) =>
         /\ members' = members
         /\ properties' = properties]_vars

\* C10 witness: the first property sync reconciled a listing, a later
\* record raised, the run then failed, and the listing's row is there
C10_Witness ==
    /\ result = "raised"
    /\ Len(logs) = 1
    /\ sync_type = PROPERTIES
    /\ first_error_at = 2
    /\ Len(properties) = 1

\* the message get_mls_client raises with (line 35-37)
ConfigError == "WFRMLS_BEARER_TOKEN not configured in settings"

\* the stored row of the running invocation, after the step
StoredLog == logs'[sync_log.pk]

\* C11: when a run fails after it processed records, its stored log has
\* status failed, completed_at, the error text, and the three counters as
\* accumulated up to the failure.
C11_FailedLogKeepsCounters ==
    [][(RaiseStep /\ records_processed > 0) =>
         /\ StoredLog.status = FAILED
         /\ StoredLog.completed_at # None
         /\ StoredLog.error_message # ""
         /\ StoredLog.records_processed = records_processed
         /\ StoredLog.records_created = records_created
         /\ StoredLog.records_updated = records_updated]_vars

\* C12: an invocation that ended by raising left its log failed with the
\* text of the exception it raised, and an invocation that returned left
\* its log completed: none returns with a failed or started log.
C12_FailedThenRaised ==
    (pc = "idle" /\ Len(logs) > 0) =>
        /\ result = "raised" =>
              /\ LastLog.status = FAILED
              /\ LastLog.error_message =
                     IF last_fetch = "rate" THEN "RateLimitError"
                     ELSE IF last_fetch = "error" THEN "ConnectionError"
                     ELSE ConfigError
        /\ result = "returned" => LastLog.status = COMPLETED

\* C12 witness: a run failed on a fetch after it had received records
C12_Witness ==
    /\ result = "raised"
    /\ last_fetch = "error"
    /\ fetched_n > 0
    /\ LastLog.status = FAILED
    /\ LastLog.error_message = "ConnectionError"

\* C13: an invocation that finds no bearer token leaves no SyncLog row: no
\* stored row carries the configuration error.
C13_NoLogOnConfigError ==
    \A i \in 1..Len(logs) : logs[i].error_message # ConfigError

\* C14: on every page, a rate-limited first request is followed by one
\* retry of the same page, a rate-limited retry ends the run failed with
\* a message, and no page is requested more than twice.
C14_OneRetryPerPage ==
    [][/\ (last_fetch' = "rate" /\ requests' = 1) =>
             /\ pc' = "retry"
             /\ page_num' = page_num
       /\ (last_fetch' = "rate" /\ requests' = 2) =>
             /\ result' = "raised"
             /\ StoredLog.status = FAILED
             /\ StoredLog.error_message # ""
       /\ requests' <= 2]_vars

\* C15: a run does not fail on a rate limit of its first page before the
\* retry of that page was made: when the retry succeeds the run goes on.
C15_FirstPageRetried ==
    [][(RaiseStep /\ page_num = 0 /\ last_fetch' = "rate") =>
         requests' = 2]_vars

\* C16 as stated: once a retry has succeeded in a run, the rate limit of a
\* later fetch of that run ends the run failed with a message.
C16_SecondRateLimitFails ==
    [][(recovered /\ last_fetch' = "rate") =>
         /\ result' = "raised"
         /\ StoredLog.status = FAILED
         /\ StoredLog.error_message # ""]_vars

\* C16 amended: once a retry has succeeded in a run, the rate limit of the
\* first request of a later page is retried once, and the run ends failed
\* with a message when that retry is rate-limited too.
C16_SecondRateLimitRetried ==
    [][/\ (recovered /\ last_fetch' = "rate" /\ requests' = 1) =>
             /\ pc' = "retry"
             /\ result' = result
       /\ (recovered /\ last_fetch' = "rate" /\ requests' = 2) =>
             /\ result' = "raised"
             /\ StoredLog.status = FAILED
             /\ StoredLog.error_message = "RateLimitError"]_vars

\* C16 witness: the run recovered on one page and failed on the rate-limited
\* retry of the next
C16_Witness ==
    /\ recovered
    /\ result = "raised"
    /\ last_fetch = "rate"
    /\ requests = 2
    /\ fetched_n > 0
    /\ LastLog.status = FAILED

\* C17: the log of every run of a process that keeps running eventually
\* has a terminal status, completed or failed.
C17_EventuallyTerminal ==
    \A i \in 1..LongRuns :
        (Len(logs) >= i) ~>
            (Len(logs) >= i /\ logs[i].status \in {COMPLETED, FAILED})

\* C17 witness: a run that went through three pages completed
C17_Witness ==
    /\ result = "returned"
    /\ fetched_n >= 3
    /\ LastLog.status = COMPLETED

\* C18: as long as an invocation runs, from before its first fetch on, its
\* log row is stored in started state, and a killed invocation leaves it so.
C18_StartedRowVisible ==
    /\ pc # "idle" =>
          /\ sync_log.pk \in 1..Len(logs)
          /\ logs[sync_log.pk].status = STARTED
          /\ logs[sync_log.pk].completed_at = None
    /\ (pc = "idle" /\ result = "killed") =>
          /\ LastLog.status = STARTED
          /\ LastLog.completed_at = None

\* C18 witness: the process was killed after records were fetched
C18_Witness ==
    /\ result = "killed"
    /\ fetched_n > 0
    /\ Len(logs) = 1
    /\ LastLog.status = STARTED

ListSide(key, aor, y) ==
    {i \in 1..Len(properties) :
        /\ Qualifies(properties[i], y)
        /\ properties[i].list_agent_key_numeric = key
        /\ AorOrUnknown(properties[i].list_agent_aor) = aor}

BuyerSide(key, aor, y) ==
    {i \in 1..Len(properties) :
        /\ Qualifies(properties[i], y)
        /\ properties[i].buyer_agent_key_numeric = key
        /\ AorOrUnknown(properties[i].buyer_agent_aor) = aor}

\* the sum of the close prices of the listings S
RECURSIVE SumOfPrices(_)
SumOfPrices(S) ==
    IF S = {} THEN 0
    ELSE LET i == CHOOSE j \in S : TRUE
         IN  PriceOf(properties[i]) + SumOfPrices(S \ {i})

\* C20: when a recompute of a year has returned, the AgentStats rows of
\* that year are exactly the buckets of a known agent with a qualifying
\* listing, each with the sums and counts of its qualifying listings.
C20_StatsAreExact ==
    last_stats.outcome = "returned" =>
        LET y == last_stats.year
        IN  /\ \A i \in RowsOfYear(agent_stats, y) :
                  LET row == agent_stats[i]
                      key == members[row.member].member_key_numeric
                      L == ListSide(key, row.aor, y)
                      B == BuyerSide(key, row.aor, y)
                  IN  /\ L \cup B # {}
                      /\ row.listing_volume = SumOfPrices(L)
                      /\ row.listing_count = Cardinality(L)
                      /\ row.buyer_volume = SumOfPrices(B)
                      /\ row.buyer_count = Cardinality(B)
            /\ \A m \in 1..Len(members), aor \in {"Unknown", "A"} :
                  LET key == members[m].member_key_numeric
                  IN  ListSide(key, aor, y) \cup BuyerSide(key, aor, y) # {}
                          => StatsMatches(agent_stats, m, y, aor) # {}

(* ------------------------- aggregation claims ------------------------ *)
\* a listing that counts for year y: closed, residential, closed in y
InScope(prop, y) ==
    /\ prop.standard_status = "Closed"
    /\ prop.property_type = "Residential"
    /\ prop.close_date = y

\* the association a side is accounted under
BucketAor(aor) == IF aor = NoAor THEN "Unknown" ELSE aor

\* the listings in scope of year y sold by agent key under association aor,
\* and those bought by it
Sold(key, aor, y) ==
    {i \in 1..Len(properties) :
        /\ InScope(properties[i], y)
        /\ properties[i].list_agent_key_numeric = key
        /\ BucketAor(properties[i].list_agent_aor) = aor}

Bought(key, aor, y) ==
    {i \in 1..Len(properties) :
        /\ InScope(properties[i], y)
        /\ properties[i].buyer_agent_key_numeric = key
        /\ BucketAor(properties[i].buyer_agent_aor) = aor}

\* the sum of the stored close prices of the listings S
RECURSIVE PriceSum(_)
PriceSum(S) ==
    IF S = {} THEN 0
    ELSE LET i == CHOOSE j \in S : TRUE
         IN  properties[i].close_price + PriceSum(S \ {i})

BucketAors == {"Unknown", "A"}

\* the external key of the agent of an AgentStats row
AgentOf(row) == members[row.member].member_key_numeric

\* a recompute of year y has just returned
Recomputed(y) == last_stats.outcome = "returned" /\ last_stats.year = y

ScenarioA(key, aor) ==
    /\ Len(properties) = 2
    /\ \A i \in 1..2 :
          /\ InScope(properties[i], 2024)
          /\ properties[i].list_agent_key_numeric = key
          /\ BucketAor(properties[i].list_agent_aor) = aor
          /\ properties[i].buyer_agent_key_numeric = None
    /\ {properties[1].close_price, properties[2].close_price}
           = {100000, 200000}

\* the rows of agent m, year y, association aor
RowsOf(m, y, aor) ==
    {i \in 1..Len(agent_stats) :
        /\ agent_stats[i].member = m
        /\ agent_stats[i].year = y
        /\ agent_stats[i].aor = aor}

\* C22: after recompute(2024) over the two listings of scenario A the row
\* of (X, association, 2024) has listing_volume 300000, listing_count 2,
\* buyer_volume 0, total_volume 300000 and average_price 150000.00; and in
\* every row average_price is total_volume / (listing_count + buyer_count)
\* to the nearest hundredth.
C22_ScenarioA ==
    /\ Recomputed(2024) =>
          \A m \in 1..Len(members), aor \in BucketAors :
              ScenarioA(members[m].member_key_numeric, aor) =>
                  /\ Cardinality(RowsOf(m, 2024, aor)) = 1
                  /\ \A i \in RowsOf(m, 2024, aor) :
                        /\ agent_stats[i].listing_volume = 300000
                        /\ agent_stats[i].listing_count = 2
                        /\ agent_stats[i].buyer_volume = 0
                        /\ agent_stats[i].total_volume = 300000
                        /\ agent_stats[i].average_price = 15000000
    /\ \A i \in 1..Len(agent_stats) :
          LET row == agent_stats[i]
              n == row.listing_count + row.buyer_count
              d == row.average_price * n - row.total_volume * 100
          IN  /\ row.transaction_count = n
              /\ n > 0 => (2 * d <= n /\ 0 - 2 * d <= n)

\* C22 witness: recompute(2024) returned over the two listings of
\* scenario A and agent 1 has the row of the scenario
C22_Witness ==
    /\ Recomputed(2024)
    /\ Len(members) = 1
    /\ ScenarioA(1, "A")
    /\ members[1].member_key_numeric = 1
    /\ \E i \in RowsOf(1, 2024, "A") :
          /\ agent_stats[i].listing_volume = 300000
          /\ agent_stats[i].average_price = 15000000

\* the volumes and counts of a row
Volumes(row) ==
    <<row.listing_volume, row.buyer_volume, row.total_volume,
      row.listing_count, row.buyer_count, row.transaction_count>>

\* C23: a recompute of a year, whether it returns or fails part-way,
\* leaves the volumes and counts of a row of that year as they were, or
\* sets them to the sums and counts over the listings that are closed,
\* residential and closed in that year: no other listing changes them.
C23_OnlyInScopeCounts ==
    [][last_stats'.outcome # "none" =>
         LET y == last_stats'.year
         IN  \A i \in 1..Len(agent_stats') :
                agent_stats'[i].year = y =>
                    LET row == agent_stats'[i]
                        S == Sold(AgentOf(row), row.aor, y)
                        B == Bought(AgentOf(row), row.aor, y)
                    IN  \/ /\ i <= Len(agent_stats)
                           /\ Volumes(agent_stats[i]) = Volumes(row)
                        \/ /\ S \cup B # {}
                           /\ row.listing_volume = PriceSum(S)
                           /\ row.listing_count = Cardinality(S)
                           /\ row.buyer_volume = PriceSum(B)
                           /\ row.buyer_count = Cardinality(B)]_vars

\* C23 witness: a recompute returned over a land sale and a residential
\* sale of the same agent and association, and the row holds the
\* residential sale alone
C23_Witness ==
    /\ last_stats.outcome = "returned"
    /\ Len(members) = 1
    /\ Len(agent_stats) = 1
    /\ \E i, j \in 1..Len(properties) :
          /\ properties[i].property_type = "Land"
          /\ properties[i].standard_status = "Closed"
          /\ properties[i].close_date = last_stats.year
          /\ InScope(properties[j], last_stats.year)
          /\ properties[i].list_agent_key_numeric = AgentOf(agent_stats[1])
          /\ properties[j].list_agent_key_numeric = AgentOf(agent_stats[1])
          /\ properties[i].list_agent_aor = properties[j].list_agent_aor
          /\ agent_stats[1].aor = BucketAor(properties[j].list_agent_aor)
          /\ agent_stats[1].listing_count = 1
          /\ agent_stats[1].listing_volume = properties[j].close_price

\* C24: after a recompute of a year, every bucket of a known agent with a
\* listing in scope has one row, whose listing side is the sum and count
\* of the listings the agent sold under that association and whose buyer
\* side is the sum and count of those it bought under it; a listing the
\* agent both sold and bought under one association is on both sides.
C24_BothSidesCounted ==
    last_stats.outcome = "returned" =>
        \A m \in 1..Len(members), aor \in BucketAors :
            LET y == last_stats.year
                S == Sold(members[m].member_key_numeric, aor, y)
                B == Bought(members[m].member_key_numeric, aor, y)
            IN  S \cup B # {} =>
                    /\ Cardinality(RowsOf(m, y, aor)) = 1
                    /\ \A i \in RowsOf(m, y, aor) :
                          /\ agent_stats[i].listing_volume = PriceSum(S)
                          /\ agent_stats[i].listing_count = Cardinality(S)
                          /\ agent_stats[i].buyer_volume = PriceSum(B)
                          /\ agent_stats[i].buyer_count = Cardinality(B)
                          /\ agent_stats[i].transaction_count
                                 = Cardinality(S) + Cardinality(B)

\* C24 witness: the one stored listing was sold and bought by the same
\* agent under the same association, and its row has the price on both
\* sides and two transactions
C24_Witness ==
    /\ last_stats.outcome = "returned"
    /\ Len(properties) = 1
    /\ properties[1].buyer_agent_key_numeric
           = properties[1].list_agent_key_numeric
    /\ Len(agent_stats) = 1
    /\ agent_stats[1].listing_volume = properties[1].close_price
    /\ agent_stats[1].buyer_volume = properties[1].close_price
    /\ agent_stats[1].transaction_count = 2

\* the listings in scope of year y that agent key sold, and those it
\* bought, without association code
SoldWithoutAor(key, y) ==
    {i \in 1..Len(properties) :
        /\ InScope(properties[i], y)
        /\ properties[i].list_agent_key_numeric = key
        /\ properties[i].list_agent_aor = NoAor}

BoughtWithoutAor(key, y) ==
    {i \in 1..Len(properties) :
        /\ InScope(properties[i], y)
        /\ properties[i].buyer_agent_key_numeric = key
        /\ properties[i].buyer_agent_aor = NoAor}

\* C25: after a recompute of a year, the listing sides and buyer sides of
\* a known agent that carry no association code are in the agent's row
\* with aor "Unknown", with their prices and counts.
C25_MissingAorIsUnknown ==
    last_stats.outcome = "returned" =>
        \A m \in 1..Len(members) :
            LET y == last_stats.year
                S == SoldWithoutAor(members[m].member_key_numeric, y)
                B == BoughtWithoutAor(members[m].member_key_numeric, y)
            IN  S \cup B # {} =>
                    \E i \in 1..Len(agent_stats) :
                        /\ agent_stats[i].member = m
                        /\ agent_stats[i].year = y
                        /\ agent_stats[i].aor = "Unknown"
                        /\ agent_stats[i].listing_volume = PriceSum(S)
                        /\ agent_stats[i].listing_count = Cardinality(S)
                        /\ agent_stats[i].buyer_volume = PriceSum(B)
                        /\ agent_stats[i].buyer_count = Cardinality(B)

\* C25 witness: a buyer side without association code is in the row
\* "Unknown" of the buyer agent
C25_Witness ==
    /\ last_stats.outcome = "returned"
    /\ \E m \in 1..Len(members) :
          /\ BoughtWithoutAor(members[m].member_key_numeric,
                              last_stats.year) # {}
          /\ \E i \in RowsOf(m, last_stats.year, "Unknown") :
                agent_stats[i].buyer_volume = 100000

\* rank is a ranking of the rows S: the ranks are 1..N, each once, and a
\* larger volume has a smaller rank
IsRanking(S, rank(_)) ==
    /\ {rank(i) : i \in S} = 1..Cardinality(S)
    /\ \A i, j \in S : rank(i) = rank(j) => i = j
    /\ \A i, j \in S :
          agent_stats[i].total_volume > agent_stats[j].total_volume
              => rank(i) < rank(j)

RankOverall(i) == agent_stats[i].rank_overall

RankInAor(i) == agent_stats[i].rank_in_aor

\* C26: after a recompute of a year, rank_overall over the rows of the
\* year is 1..N without gap or duplicate and a strictly larger
\* total_volume has a strictly smaller rank; rank_in_aor is the same
\* over the rows of each association of the year.
C26_RanksAreRankings ==
    last_stats.outcome = "returned" =>
        LET S == {i \in 1..Len(agent_stats) :
                     agent_stats[i].year = last_stats.year}
        IN  /\ IsRanking(S, RankOverall)
            /\ \A aor \in {agent_stats[i].aor : i \in S} :
                  IsRanking({i \in S : agent_stats[i].aor = aor}, RankInAor)

\* C26 witness: two rows of the year in different associations with
\* different volumes: overall ranks 1 and 2, each first in its
\* association
C26_Witness ==
    /\ last_stats.outcome = "returned"
    /\ Len(agent_stats) = 2
    /\ agent_stats[1].year = last_stats.year
    /\ agent_stats[2].year = last_stats.year
    /\ agent_stats[1].aor # agent_stats[2].aor
    /\ agent_stats[1].total_volume < agent_stats[2].total_volume
    /\ agent_stats[1].rank_overall = 2
    /\ agent_stats[2].rank_overall = 1
    /\ agent_stats[1].rank_in_aor = 1
    /\ agent_stats[2].rank_in_aor = 1

\* C27 as claimed: a recompute of a year that follows a recompute of the
\* same year, with no change of the stored listings and agents between
\* them, leaves every row with the ranks it had.
C27_SameRanksAgain ==
    [][(/\ last_stats.outcome = "returned"
        /\ last_stats'.outcome = "returned"
        /\ last_stats'.year = last_stats.year)
           => agent_stats' = agent_stats]_vars

\* the buckets of year y whose agent has a Member row
KnownBuckets(y) ==
    {b \in (1..Len(members)) \X BucketAors :
        Sold(members[b[1]].member_key_numeric, b[2], y)
            \cup Bought(members[b[1]].member_key_numeric, b[2], y) # {}}

\* the agents of listings in scope of year y that have no Member row
UnknownAgents(y) ==
    {key \in AgentKeys :
        /\ MemberMatches(members, key) = {}
        /\ \E aor \in BucketAors :
              Sold(key, aor, y) \cup Bought(key, aor, y) # {}}

\* C28: a recompute that returned counted exactly the buckets whose agent
\* has a Member row and wrote a row for each of them, whatever the number
\* of buckets whose agent is unknown; every row belongs to a stored
\* Member.
C28_UnknownAgentSkipped ==
    last_stats.outcome = "returned" =>
        /\ last_stats.stats_updated
               = Cardinality(KnownBuckets(last_stats.year))
        /\ \A b \in KnownBuckets(last_stats.year) :
              RowsOf(b[1], last_stats.year, b[2]) # {}
        /\ \A i \in 1..Len(agent_stats) :
              agent_stats[i].member \in 1..Len(members)

\* C28 witness: a recompute returned over a listing whose list agent is
\* known and whose buyer agent has no Member row: one bucket counted, one
\* row written
C28_Witness ==
    /\ last_stats.outcome = "returned"
    /\ last_stats.stats_updated = 1
    /\ UnknownAgents(last_stats.year) # {}
    /\ Len(agent_stats) = 1
    /\ \E i \in 1..Len(properties) :
          /\ InScope(properties[i], last_stats.year)
          /\ properties[i].buyer_agent_key_numeric
                 \in UnknownAgents(last_stats.year)
          /\ properties[i].list_agent_key_numeric
                 = AgentOf(agent_stats[1])

\* (member, year, aor) of a row of AgentStats
StatsKey(row) == <<row.member, row.year, row.aor>>

\* C29: whatever reconciliations and recomputes have run, one after
\* another: no two Member rows have the same member_key_numeric, no two
\* Property rows the same (listing, buyer agent, list agent, status), a
\* missing buyer agent included, and no two AgentStats rows the same
\* (member, year, aor).
C29_KeysAreUnique ==
    /\ UniqueMemberKeys(members)
    /\ UniquePropertyKeys(properties)
    /\ \A i, j \in 1..Len(agent_stats) :
          StatsKey(agent_stats[i]) = StatsKey(agent_stats[j]) => i = j

\* C29 witness: a listing without buyer agent was reconciled twice into
\* one row and two recomputes wrote one row of one bucket
C29_Witness ==
    /\ served = 2
    /\ Len(properties) = 1
    /\ properties[1].buyer_agent_key_numeric = None
    /\ clock = 3
    /\ last_stats.outcome = "returned"
    /\ Len(members) = 1
    /\ Len(agent_stats) = 1

\* C30: no step of a sync, a recompute or run_full_sync removes a row of
\* Member, Property or SyncLog: each table keeps its rows, every row
\* under its id and with its key, and only gets longer.
C30_RowsAreKept ==
    [][/\ Len(members') >= Len(members)
       /\ Len(properties') >= Len(properties)
       /\ Len(logs') >= Len(logs)
       /\ \A i \in 1..Len(members) :
             members'[i].member_key_numeric = members[i].member_key_numeric
       /\ \A i \in 1..Len(properties) :
             NaturalKey(properties'[i]) = NaturalKey(properties[i])
       /\ \A i \in 1..Len(logs) :
             /\ logs'[i].sync_type = logs[i].sync_type
             /\ logs'[i].started_at = logs[i].started_at]_vars

\* C30 witness: run_full_sync failed in the recompute after its two
\* syncs completed: the rows the syncs stored and their two log rows are
\* there
C30_Witness ==
    /\ last_stats.outcome = "raised"
    /\ Len(logs) = 2
    /\ logs[1].status = COMPLETED
    /\ logs[2].status = COMPLETED
    /\ Len(members) = 1
    /\ Len(properties) = 1

\* C31: a recompute of a year, returned or failed, leaves every
\* AgentStats row of another year as it was, creates rows of the target
\* year only, and changes no Member, Property or SyncLog row.
C31_OtherYearsUntouched ==
    [][last_stats'.outcome # "none" =>
         /\ members' = members
         /\ properties' = properties
         /\ logs' = logs
         /\ Len(agent_stats') >= Len(agent_stats)
         /\ \A i \in 1..Len(agent_stats') :
               \/ agent_stats'[i].year = last_stats'.year
               \/ /\ i <= Len(agent_stats)
                  /\ agent_stats'[i] = agent_stats[i]
         /\ \A i \in 1..Len(agent_stats) :
               agent_stats'[i].year = agent_stats[i].year]_vars

\* C31 witness: a recompute returned with a ranked row of the target year
\* next to a ranked row of another year
C31_Witness ==
    /\ last_stats.outcome = "returned"
    /\ Len(agent_stats) = 2
    /\ agent_stats[1].year # last_stats.year
    /\ agent_stats[2].year = last_stats.year
    /\ agent_stats[1].rank_overall = 1
    /\ agent_stats[2].rank_overall = 1

\* C32 as claimed: the command raises only when a step it called
\* failed; when every step succeeded it reports the counters and ends.
C32_RaisesOnlyOnFailure ==
    command.ended = "raised" => command.failed

\* a step in which the running sync sent a request for a page
RequestStep == pc \in {"fetch", "retry"} /\ last_fetch' # "none"

\* C33: a sync asks for a page only when every record of the pages it
\* has fetched is processed; a property sync only when all pages so far
\* were full, at the offset that is the number of records fetched so
\* far; a member sync only when the last response carried a continuation
\* link; and a run that returns has processed every fetched record once.
C33_StopsAtSignal ==
    [][/\ RequestStep =>
             /\ records_processed = fetched_n
             /\ sync_type = PROPERTIES =>
                   /\ page_num = 0 \/ page_len = PageSize
                   /\ fetched_n = page_num * PageSize
             /\ sync_type = MEMBERS =>
                   page_num = 0 \/ next_link # "none"
       /\ (pc # "idle" /\ result' = "returned") =>
             /\ records_processed = fetched_n
             /\ page_left = 0]_vars

\* C33 witness: a property sync returned after two full pages and a short
\* third one, all five records processed
C33_Witness ==
    /\ result = "returned"
    /\ sync_type = PROPERTIES
    /\ fetched_n = 2 * PageSize + 1
    /\ Len(logs) = 1
    /\ logs[1].status = COMPLETED
    /\ logs[1].records_processed = 2 * PageSize + 1

\* C34 as claimed: an incremental member sync skips no record whose
\* reconciliation raised in the member sync before it, when that one
\* completed and the record comes with the same modification timestamp.
C34_FailedRecordRetried ==
    (sync_type = MEMBERS /\ ~full_sync) =>
        errors.completed \cap errors.skipped = {}

\* the rows of year y whose bucket has a listing in scope now
FreshRows(y) ==
    {i \in 1..Len(agent_stats) :
        /\ agent_stats[i].year = y
        /\ Sold(AgentOf(agent_stats[i]), agent_stats[i].aor, y)
               \cup Bought(AgentOf(agent_stats[i]), agent_stats[i].aor, y)
               # {}}

\* the listing-side and the buyer-side counts of the rows S, added up
RECURSIVE ListingCounts(_)
ListingCounts(S) ==
    IF S = {} THEN 0
    ELSE LET i == CHOOSE x \in S : TRUE
         IN  agent_stats[i].listing_count + ListingCounts(S \ {i})

RECURSIVE BuyerCounts(_)
BuyerCounts(S) ==
    IF S = {} THEN 0
    ELSE LET i == CHOOSE x \in S : TRUE
         IN  agent_stats[i].buyer_count + BuyerCounts(S \ {i})

\* the listings (listing_key_numeric) with a row in scope of year y
ListingsInScope(y) ==
    {properties[i].listing_key_numeric :
        i \in {j \in 1..Len(properties) : InScope(properties[j], y)}}

\* C35 as claimed: after a recompute of a year, the rows of the buckets
\* that have a listing in scope count, on the listing side and on the
\* buyer side, no more sales than there are listings in scope.
C35_ListingCountedOnce ==
    last_stats.outcome = "returned" =>
        /\ ListingCounts(FreshRows(last_stats.year))
               <= Cardinality(ListingsInScope(last_stats.year))
        /\ BuyerCounts(FreshRows(last_stats.year))
               <= Cardinality(ListingsInScope(last_stats.year))

\* C36 as claimed: after a recompute of a year, of two rows of the year
\* and of the same association the one with the smaller rank_in_aor has
\* the smaller rank_overall.
C36_RankingsAgree ==
    last_stats.outcome = "returned" =>
        \A i, j \in 1..Len(agent_stats) :
            (/\ agent_stats[i].year = last_stats.year
             /\ agent_stats[j].year = last_stats.year
             /\ agent_stats[i].aor = agent_stats[j].aor
             /\ agent_stats[i].rank_in_aor < agent_stats[j].rank_in_aor)
                => agent_stats[i].rank_overall < agent_stats[j].rank_overall

\* C37: every AgentStats row has transaction_count = listing_count +
\* buyer_count, at least 1, and an average_price, which is the total
\* volume divided by that count (in hundredths, rounded): a row without
\* a counted side is never written.
C37_CountedAndAveraged ==
    \A i \in 1..Len(agent_stats) :
        LET row == agent_stats[i]
        IN  /\ row.transaction_count = row.listing_count + row.buyer_count
            /\ row.transaction_count >= 1
            /\ row.average_price # None
            /\ 2 * row.average_price * row.transaction_count
                   >= 200 * row.total_volume - row.transaction_count
            /\ 2 * row.average_price * row.transaction_count
                   <= 200 * row.total_volume + row.transaction_count

\* C37 witness: the row of an agent who only bought: no listing counted,
\* one purchase, and its price as the average
C37_Witness ==
    \E i \in 1..Len(agent_stats) :
        /\ agent_stats[i].listing_count = 0
        /\ agent_stats[i].buyer_count = 1
        /\ agent_stats[i].transaction_count = 1
        /\ agent_stats[i].average_price = 100 * agent_stats[i].buyer_volume
        /\ agent_stats[i].buyer_volume = 100000

\* C40: while an incremental sync runs whose type's most recently
\* completed run stored no watermark, it has no floor and its last
\* iteration did not skip the record, whatever older completed runs hold.
C40_NoWatermarkNoFloor ==
    (/\ pc \in {"fetch", "retry", "loop"}
     /\ ~full_sync
     /\ LastCompletedWatermark(sync_type) = None)
        => /\ last_timestamp = None
           /\ last_op # "skip"

\* C40 witness: the first member run completed with watermark 2, the
\* second completed without one, and the third, incremental, has just
\* reconciled a record with timestamp 1
C40_Witness ==
    /\ Len(logs) = 3
    /\ logs[1].sync_type = MEMBERS /\ logs[1].status = COMPLETED
    /\ logs[1].last_modification_timestamp = 2
    /\ logs[2].sync_type = MEMBERS /\ logs[2].status = COMPLETED
    /\ logs[2].last_modification_timestamp = None
    /\ pc = "loop" /\ sync_type = MEMBERS /\ ~full_sync
    /\ last_op = "updated"
    /\ Len(members) = 1
    /\ members[1].modification_timestamp = 1

\* total_volume of the rows S of AgentStats, added up
RECURSIVE TotalVolumes(_)
TotalVolumes(S) ==
    IF S = {} THEN 0
    ELSE LET i == CHOOSE x \in S : TRUE
         IN  agent_stats[i].total_volume + TotalVolumes(S \ {i})

\* C39 as claimed: after a recompute of a year, get_total_volume(year)
\* of every member is the sum of total_volume over the member's
\* AgentStats rows of the year.
C39_VolumeMatchesStats ==
    last_stats.outcome = "returned" =>
        \A m \in 1..Len(members) :
            get_total_volume(properties, members[m].member_key_numeric,
                             last_stats.year)
                = TotalVolumes({i \in 1..Len(agent_stats) :
                                   /\ agent_stats[i].member = m
                                   /\ agent_stats[i].year = last_stats.year})

\* C38 as claimed: once the syncs that two processes ran side by side
\* over one record are over, the record's key has at most one row, and
\* every completed log has created + updated <= processed.
C38_RaceKeepsOneRow ==
    (\A w \in Workers : workers[w].at = "none") =>
        /\ UniqueMemberKeys(members)
        /\ UniquePropertyKeys(properties)
        /\ \A i \in 1..Len(logs) :
              logs[i].status = COMPLETED =>
                  logs[i].records_created + logs[i].records_updated
                      <= logs[i].records_processed

====
